---- MODULE Spec2Model ----
(***************************************************************************)
(* Session lifecycle and cost-governed request orchestration of the        *)
(* engineering document practice tool (backend/main.py, claude_client.py,  *)
(* session_store.py, token_tracker.py, config.py).                         *)
(*                                                                         *)
(* Every HTTP handler is one atomic action: the handlers are coroutines    *)
(* without an await between their first and last statement, so the event   *)
(* loop never interleaves two of them.                                     *)
(*                                                                         *)
(* Money is counted in units of 1e-4 dollar (the precision estimate_cost   *)
(* rounds to); prices are in cents per million tokens.                     *)
(***************************************************************************)
EXTENDS Integers, Sequences, FiniteSets, TLC

VARIABLES
    app_config,       \* config.py: the global AppConfig instance
    today,            \* the calendar day datetime.now() reports
    active_sessions,  \* main.py: session id -> in-progress session
    sessions_dir,     \* session_store.py: file stem -> content of <stem>.json
    active_quick_sessions,  \* main.py: quick session id -> in-progress quick session
    quick_sessions_dir,     \* session_store.py: file stem -> content, sessions/quick
    resp,             \* the response of the last request
    issued,           \* how often a successful start has returned each id
    scope,            \* which requests and oracle replies the run draws from
    session_files,    \* session_store.py called directly: file stem -> text of the file
    saved,            \* the document last handed to save_session for each id
    loaded,           \* the last call of load_session: its id and what it returned
    tracked,          \* token_tracker.py called directly: a TokenTracker
    prompted          \* prompts.py called directly: the timers and the prompt built

\* The state of the functions called directly, which no request touches.
units == <<session_files, saved, loaded, tracked, prompted>>

vars == <<app_config, today, active_sessions, sessions_dir,
          active_quick_sessions, quick_sessions_dir, resp, issued, scope,
          session_files, saved, loaded, tracked, prompted>>

-----------------------------------------------------------------------------
(* Bounds of the model *)

MaxDay == 2        \* days the clock runs through
MaxSessions == 2   \* sessions (in memory or stored) a run holds at most
MaxCalls == 3      \* tracked calls after which a session places no new call
MaxStepArg == 2    \* how many of the recognized steps the client submits

-----------------------------------------------------------------------------
(* Small helpers on functions *)

Put(f, k, v) == [x \in DOMAIN f \cup {k} |-> IF x = k THEN v ELSE f[x]]

Remove(f, k) == [x \in DOMAIN f \ {k} |-> f[x]]

EmptyMap == [x \in {} |-> x]

Max(S) == CHOOSE x \in S : \A y \in S : y <= x

-----------------------------------------------------------------------------
(* config.py *)

\* MODELS: price table, in cents per million tokens.
MODELS ==
    [opus   |-> [api_name |-> "claude-opus-4-6",
                 input_cost_per_m |-> 1500, output_cost_per_m |-> 7500],
     sonnet |-> [api_name |-> "claude-sonnet-4-5-20250929",
                 input_cost_per_m |-> 300, output_cost_per_m |-> 1500],
     haiku  |-> [api_name |-> "claude-haiku-4-5-20251001",
                 input_cost_per_m |-> 80, output_cost_per_m |-> 400]]

\* A float attribute holds a number or None: <<v>> is the number v, <<>> is None.
None == <<>>
Num(v) == <<v>>
IsNumber(x) == Len(x) = 1
NumOf(x) == x[1]

\* AppConfig(): the defaults of the dataclass (cost_limit 4.00 dollars,
\* timers in seconds, domain None).
DefaultCostLimit == 40000

AppConfig ==
    [model_key |-> "opus",
     timer_request |-> Num(420),
     timer_document |-> Num(420),
     timer_predictions |-> Num(420),
     timer_data |-> Num(420),
     cost_limit |-> Num(DefaultCostLimit),
     domain |-> None,
     difficulty |-> "intermediate"]

\* AppConfig.model: MODELS[self.model_key], a KeyError for an unknown key.
ModelKnown == app_config.model_key \in DOMAIN MODELS
ConfigModel == MODELS[app_config.model_key]

-----------------------------------------------------------------------------
(* token_tracker.py *)

\* TokenTracker(): a fresh tracker.
TokenTracker ==
    [total_input_tokens |-> 0, total_output_tokens |-> 0,
     call_count |-> 0, calls |-> <<>>]

\* A track that counts the call and does not list it.
track_unlisted(t, input_tokens, output_tokens, call_label) ==
    [total_input_tokens  |-> t.total_input_tokens + input_tokens,
     total_output_tokens |-> t.total_output_tokens + output_tokens,
     call_count          |-> t.call_count + 1,
     calls               |-> t.calls]

\* TokenTracker.track
track(t, input_tokens, output_tokens, call_label) ==
    [total_input_tokens  |-> t.total_input_tokens + input_tokens,
     total_output_tokens |-> t.total_output_tokens + output_tokens,
     call_count          |-> t.call_count + 1,
     calls               |-> Append(t.calls,
                                [label |-> call_label,
                                 input_tokens |-> input_tokens,
                                 output_tokens |-> output_tokens])]

\* round(x, 4) of x = n / 10000 dollars, as a count of 1e-4 dollars: the
\* nearest integer to n / 10000, a tie going to the even neighbour.
Round4(n) ==
    LET q == n \div 10000
        r == n % 10000
    IN  IF r > 5000 THEN q + 1
        ELSE IF r < 5000 THEN q
        ELSE IF q % 2 = 0 THEN q ELSE q + 1

\* A cost that rounds every call on its own and adds the rounded costs up.
RECURSIVE CostByCall(_, _)
CostByCall(calls, model) ==
    IF calls = <<>> THEN 0
    ELSE Round4(Head(calls).input_tokens * model.input_cost_per_m
                + Head(calls).output_tokens * model.output_cost_per_m)
         + CostByCall(Tail(calls), model)

estimate_cost_by_call(t, model) == CostByCall(t.calls, model)

\* TokenTracker.estimate_cost: tokens / 1e6 * dollars per million, rounded
\* to 4 decimals.  tokens * cents-per-million is the cost in 1e-8 dollars.
estimate_cost(t, model) ==
    Round4(t.total_input_tokens * model.input_cost_per_m
           + t.total_output_tokens * model.output_cost_per_m)

\* TokenTracker.to_dict
to_dict(t, model) ==
    [total_input_tokens  |-> t.total_input_tokens,
     total_output_tokens |-> t.total_output_tokens,
     call_count          |-> t.call_count,
     calls               |-> t.calls,
     estimated_cost      |-> estimate_cost(t, model)]

-----------------------------------------------------------------------------
(* JSON values, as far as the code looks into them.                         *)
(*   kind    : "dict", "num" (a JSON number) or "null" (Python None)        *)
(*   keys    : the top-level keys of a dict                                 *)
(*   docs    : the value of "documents", a list of documents                *)
(*   overall : the value of "overall": "absent", "str" (a non-empty        *)
(*             string) or "dict" (score, summary and top_improvement)       *)
(*   raw     : the value of "raw_response", a text                          *)
(* Nested objects that are present are well formed.                         *)

Json(kind, keys, docs, overall, raw) ==
    [kind |-> kind, keys |-> keys, docs |-> docs, overall |-> overall, raw |-> raw]

JsonNull == Json("null", {}, <<>>, "absent", <<>>)

ScenarioKeys == {"background", "request", "documents", "data", "rubric"}

QuickScenarioKeys == {"question", "documents", "key_facts", "ideal_response"}

SectionKeys ==
    {"deliverable_understanding", "note_quality", "note_efficiency",
     "data_predictions", "data_analysis", "formatting"}

\* The JSON documents the oracle writes, by the token that stands for each.
JsonOf ==
    [scn   |-> Json("dict", ScenarioKeys, <<"doc1", "doc2", "doc3">>, "absent", <<>>),
     scn2  |-> Json("dict", ScenarioKeys, <<"doc1", "doc2">>, "absent", <<>>),
     fb    |-> Json("dict", SectionKeys \cup {"overall"}, <<>>, "dict", <<>>),
     fbstr |-> Json("dict", {"overall"}, <<>>, "str", <<>>),
     fbns  |-> Json("dict", SectionKeys \cup {"overall"}, <<>>, "noscore", <<>>),
     num   |-> Json("num", {}, <<>>, "absent", <<>>),
     qscn  |-> Json("dict", QuickScenarioKeys, <<"qdoc1">>, "absent", <<>>),
     qfb   |-> Json("dict", {"score", "overall_comment"}, <<>>, "absent", <<>>)]

JsonTokens == DOMAIN JsonOf

\* A text is a sequence of tokens: a fence marker, a line break, a blank,
\* a word that is no JSON (a language tag, prose), or a JSON document.
FENCE == "fence"
NL == "newline"
SP == "blank"
WORD == "json"

IsSpace(c) == c \in {NL, SP}

-----------------------------------------------------------------------------
(* claude_client.py: _call_claude *)

RECURSIVE LStrip(_)
LStrip(s) == IF s # <<>> /\ IsSpace(Head(s)) THEN LStrip(Tail(s)) ELSE s

RECURSIVE RStrip(_)
RStrip(s) ==
    IF s # <<>> /\ IsSpace(s[Len(s)]) THEN RStrip(SubSeq(s, 1, Len(s) - 1)) ELSE s

\* str.strip()
Strip(s) == RStrip(LStrip(s))

Positions(s, c) == {i \in 1..Len(s) : s[i] = c}

\* cleaned.split(newline, 1): one part when the text holds no line break.
SplitFirstLine(s) ==
    IF Positions(s, NL) = {} THEN <<s>>
    ELSE LET i == CHOOSE j \in Positions(s, NL) : \A k \in Positions(s, NL) : j <= k
         IN  <<SubSeq(s, 1, i - 1), SubSeq(s, i + 1, Len(s))>>

\* cleaned.rsplit(fence, 1)[0]: what precedes the last fence marker.
BeforeLastFence(s) ==
    IF Positions(s, FENCE) = {} THEN s
    ELSE SubSeq(s, 1, Max(Positions(s, FENCE)) - 1)

\* Lines 110-115: the text json.loads is given; ok is FALSE when
\* split(...)[1] raises IndexError.
Cleaned(raw_text) ==
    LET cleaned == Strip(raw_text)
    IN  IF cleaned # <<>> /\ Head(cleaned) = FENCE
        THEN IF Len(SplitFirstLine(cleaned)) < 2
             THEN [ok |-> FALSE, text |-> cleaned]
             ELSE [ok |-> TRUE,
                   text |-> Strip(BeforeLastFence(SplitFirstLine(cleaned)[2]))]
        ELSE [ok |-> TRUE, text |-> cleaned]

\* json.loads: one JSON document, blanks around it allowed.
LoadsOk(text) == Len(Strip(text)) = 1 /\ Strip(text)[1] \in JsonTokens
Loads(text) == JsonOf[Strip(text)[1]]

\* Lines 122-126: the record returned when json.loads raises.
ParseFailure(raw_text) ==
    Json("dict", {"error", "raw_response", "parse_error"}, <<>>, "absent", raw_text)

\* What one invocation of the gateway did: exc is the exception it raised
\* ("" when it returned), value what it returned, tracker the tracker
\* afterwards, log the invocation as the operator of the service sees it
\* (the label, the tracker before and after, whether a request was placed
\* with the oracle, the reply received).
Outcome(exc, value, tracker, log) ==
    [exc |-> exc, value |-> value, tracker |-> tracker, log |-> log]

Invocation(call_label, before, reply, exc, value, after, sent, user_prompt) ==
    [label |-> call_label, before |-> before, reply |-> reply,
     exc |-> exc, value |-> value, after |-> after, sent |-> sent,
     prompt |-> user_prompt]

NoReply == [kind |-> "none", text |-> <<>>, usage |-> <<0, 0>>]

\* The budget check with a strict comparison.
OverBudgetStrict(current_cost, cost_limit) == current_cost > cost_limit

\* Lines 84-88: the budget check.
OverBudget(current_cost, cost_limit) == current_cost >= cost_limit

\* A call of the oracle that always comes back with a response.
create_never_raises(reply) == FALSE

\* Lines 90-95: client.messages.create raises (the oracle is unreachable,
\* the request is rejected or the response cannot be decoded); no handler
\* of the gateway surrounds the call.
create_raises(reply) == reply.kind = "error"

\* A reply of the oracle: kind "error" (messages.create raises), "empty" (a
\* response without content block) or "text"; usage is <<input, output>>.
call_claude(user_prompt, tracker, call_label, reply) ==
    LET refused(exc) ==
            Outcome(exc, JsonNull, tracker,
                    <<Invocation(call_label, tracker, NoReply, exc, JsonNull, tracker, 0,
                                 user_prompt)>>)
        placed(exc, value, t) ==
            Outcome(exc, value, t,
                    <<Invocation(call_label, tracker, reply, exc, value, t, 1, user_prompt)>>)
    IN  IF ~ModelKnown THEN refused("KeyError")
        ELSE IF ~IsNumber(app_config.cost_limit) THEN refused("TypeError")
        ELSE IF OverBudget(estimate_cost(tracker, ConfigModel),
                           NumOf(app_config.cost_limit))
        THEN refused("BudgetExceeded")
        ELSE IF create_raises(reply) THEN placed("APIError", JsonNull, tracker)
        ELSE LET t == track(tracker, reply.usage[1], reply.usage[2], call_label)
                 cleaned == Cleaned(reply.text)
             IN  IF reply.kind = "empty" THEN placed("IndexError", JsonNull, t)
                 ELSE IF ~cleaned.ok THEN placed("IndexError", JsonNull, t)
                 ELSE IF LoadsOk(cleaned.text) THEN placed("", Loads(cleaned.text), t)
                 ELSE placed("", ParseFailure(reply.text), t)

-----------------------------------------------------------------------------
(* The oracle's replies the model draws from *)

\* response.usage of every call: 1.33332 dollars at the opus prices, so
\* that three calls cost 3.99996 dollars, which rounds to the default cost
\* limit of 4.00.
Usage == <<88883, 1>>

Reply(kind, text) == [kind |-> kind, text |-> text, usage |-> Usage]

Says(b) == Reply("text", <<b>>)
Fenced(b) == Reply("text", <<FENCE, WORD, NL, b, NL, FENCE>>)
Inline(b) == Reply("text", <<FENCE, b, FENCE>>)
Fails == Reply("error", <<>>)
Empty == Reply("empty", <<>>)

-----------------------------------------------------------------------------
(* session_store.py *)

RECURSIVE Digits(_)
Digits(n) == IF n < 10 THEN <<n>> ELSE Append(Digits(n \div 10), n % 10)

\* f"{next_counter:03d}": the decimal digits, zero-padded to 3 at least.
Pad3(n) ==
    LET d == Digits(n)
    IN  IF Len(d) >= 3 THEN d
        ELSE [i \in 1..3 |-> IF i <= 3 - Len(d) THEN 0 ELSE d[i - (3 - Len(d))]]

\* int(name.split("_")[-1])
RECURSIVE ParseInt(_)
ParseInt(ds) ==
    IF ds = <<>> THEN 0
    ELSE 10 * ParseInt(SubSeq(ds, 1, Len(ds) - 1)) + ds[Len(ds)]

\* The stem f"{today}_{next_counter:03d}" of a session file.
SessionId(day, n) == [day |-> day, suffix |-> Pad3(n)]

NoId == [day |-> 0, suffix |-> <<>>]

\* A counter after the highest one among the files of every day.
NextCounterAnyDay ==
    IF DOMAIN sessions_dir # {}
    THEN Max({ParseInt(name.suffix) : name \in DOMAIN sessions_dir}) + 1
    ELSE 1

\* Lines 53-62: the counter after the highest one among today's files.
NextCounter ==
    LET existing == {f \in DOMAIN sessions_dir : f.day = today}
    IN  IF existing # {}
        THEN Max({ParseInt(name.suffix) : name \in existing}) + 1
        ELSE 1

\* An id whose counter always starts over.
generate_session_id_first == SessionId(today, 1)

generate_session_id == SessionId(today, NextCounter)

\* A save that writes nothing.
save_nothing(session_id, data) == sessions_dir

\* save_session: <session_id>.json is (over)written with the document.
save_session(session_id, data) == Put(sessions_dir, session_id, data)

\* Order of the file names as strings: day first, then the suffix digit by digit.
RECURSIVE LexLess(_, _)
LexLess(a, b) ==
    IF a = <<>> THEN b # <<>>
    ELSE IF b = <<>> THEN FALSE
    ELSE IF Head(a) # Head(b) THEN Head(a) < Head(b)
    ELSE LexLess(Tail(a), Tail(b))

NameLess(f, g) == f.day < g.day \/ (f.day = g.day /\ LexLess(f.suffix, g.suffix))

\* sorted(SESSIONS_DIR.glob("*.json"), reverse=True)
RECURSIVE SortedReverse(_)
SortedReverse(S) ==
    IF S = {} THEN <<>>
    ELSE LET top == CHOOSE f \in S : \A g \in S \ {f} : NameLess(g, f)
         IN  <<top>> \o SortedReverse(S \ {top})

\* get_past_summaries, lines 163-179: raised is TRUE when feedback.get or
\* overall.get raises AttributeError, which the except clause does not catch.
RECURSIVE ScanSummaries(_, _, _)
ScanSummaries(files, summaries, limit) ==
    IF files = <<>> \/ Len(summaries) >= limit
    THEN [raised |-> FALSE, summaries |-> summaries]
    ELSE LET feedback == sessions_dir[Head(files)].feedback
         IN  IF feedback.kind # "dict" THEN [raised |-> TRUE, summaries |-> summaries]
             ELSE IF feedback.overall = "absent"
             THEN ScanSummaries(Tail(files), summaries, limit)
             ELSE IF feedback.overall = "str"
             THEN [raised |-> TRUE, summaries |-> summaries]
             ELSE ScanSummaries(Tail(files), Append(summaries, Head(files)), limit)

PastLimit == 5

get_past_summaries(limit) ==
    ScanSummaries(SortedReverse(DOMAIN sessions_dir), <<>>, limit)

\* list_sessions, lines 121-143: one summary per file, newest name first.
\* data.get("feedback", {}).get("overall", {}).get("score") raises
\* AttributeError when the feedback or its overall is not a dict, and the
\* except clause catches JSONDecodeError and KeyError only.
RECURSIVE ScanSessions(_, _)
ScanSessions(files, sessions) ==
    IF files = <<>> THEN [raised |-> FALSE, sessions |-> sessions]
    ELSE LET data == sessions_dir[Head(files)]
             feedback == data.feedback
         IN  IF feedback.kind # "dict" THEN [raised |-> TRUE, sessions |-> sessions]
             ELSE IF feedback.overall = "str"
             THEN [raised |-> TRUE, sessions |-> sessions]
             ELSE ScanSessions(
                      Tail(files),
                      Append(sessions,
                        [session_id |-> Head(files), timestamp |-> data.timestamp,
                         model_used |-> data.model_used,
                         overall_score |-> IF feedback.overall = "dict"
                                           THEN "score" ELSE "None",
                         estimated_cost |-> data.token_usage.estimated_cost]))

list_sessions == ScanSessions(SortedReverse(DOMAIN sessions_dir), <<>>)

-----------------------------------------------------------------------------
(* session_store.py at the level of the file's text: json.dump, json.load *)

\* A Python value json can represent: None, a bool, an int, a str, a list
\* or a dict with str keys.
JV(t, b, n, x, items, members) ==
    [t |-> t, b |-> b, n |-> n, x |-> x, items |-> items, members |-> members]
JNone == JV("null", FALSE, 0, "", <<>>, EmptyMap)
JBool(b) == JV("bool", b, 0, "", <<>>, EmptyMap)
JInt(n) == JV("num", FALSE, n, "", <<>>, EmptyMap)
JStr(x) == JV("str", FALSE, 0, x, <<>>, EmptyMap)
JList(items) == JV("list", FALSE, 0, "", items, EmptyMap)
JDict(members) == JV("dict", FALSE, 0, "", <<>>, members)

\* The text of a file, token by token: punctuation, white space and the
\* literals (a literal token carries the value it spells).
Punct(c) == [k |-> "punct", c |-> c, lit |-> JNone]
White == [k |-> "white", c |-> " ", lit |-> JNone]
Literal(x) == [k |-> "literal", c |-> "", lit |-> x]

\* json.dump(data, f, indent=2): an empty list or dict is written closed
\* at once; otherwise every item is on a line of its own, members in the
\* order of the dict, a comma after every item but the last.
RECURSIVE json_dump(_), DumpItems(_), DumpMembers(_, _)
json_dump(data) ==
    IF data.t = "list"
    THEN IF data.items = <<>> THEN <<Punct("["), Punct("]")>>
         ELSE <<Punct("["), White>> \o DumpItems(data.items) \o <<White, Punct("]")>>
    ELSE IF data.t = "dict"
    THEN IF DOMAIN data.members = {} THEN <<Punct("{"), Punct("}")>>
         ELSE <<Punct("{"), White>> \o DumpMembers(data.members, DOMAIN data.members)
              \o <<White, Punct("}")>>
    ELSE <<Literal(data)>>

DumpItems(items) ==
    IF Len(items) = 1 THEN json_dump(items[1])
    ELSE json_dump(items[1]) \o <<Punct(","), White>> \o DumpItems(Tail(items))

DumpMembers(members, keys) ==
    LET key == CHOOSE x \in keys : TRUE
        member == <<Literal(JStr(key)), Punct(":"), White>> \o json_dump(members[key])
    IN  IF keys = {key} THEN member
        ELSE member \o <<Punct(","), White>> \o DumpMembers(members, keys \ {key})

\* The position of the first token at or after i that is not white space.
RECURSIVE SkipWhite(_, _)
SkipWhite(text, i) ==
    IF i <= Len(text) /\ text[i] = White THEN SkipWhite(text, i + 1) ELSE i

Parsed(v, next) == [ok |-> TRUE, v |-> v, next |-> next]
Unparsed == [ok |-> FALSE, v |-> JNone, next |-> 0]

\* The decoder of json.load: the value that starts at position i, and the
\* position after it.
RECURSIVE ParseValue(_, _), ParseItems(_, _, _), ParseMembers(_, _, _)
ParseValue(text, i) ==
    LET j == SkipWhite(text, i)
    IN  IF j > Len(text) THEN Unparsed
        ELSE IF text[j] = Punct("[") THEN ParseItems(text, j + 1, <<>>)
        ELSE IF text[j] = Punct("{") THEN ParseMembers(text, j + 1, EmptyMap)
        ELSE IF text[j].k = "literal" THEN Parsed(text[j].lit, j + 1)
        ELSE Unparsed

ParseItems(text, i, items) ==
    LET j == SkipWhite(text, i)
    IN  IF j > Len(text) THEN Unparsed
        ELSE IF text[j] = Punct("]") /\ items = <<>> THEN Parsed(JList(items), j + 1)
        ELSE LET item == ParseValue(text, j)
                 k == SkipWhite(text, item.next)
             IN  IF ~item.ok \/ k > Len(text) THEN Unparsed
                 ELSE IF text[k] = Punct(",")
                 THEN ParseItems(text, k + 1, Append(items, item.v))
                 ELSE IF text[k] = Punct("]")
                 THEN Parsed(JList(Append(items, item.v)), k + 1)
                 ELSE Unparsed

ParseMembers(text, i, members) ==
    LET j == SkipWhite(text, i)
    IN  IF j > Len(text) THEN Unparsed
        ELSE IF text[j] = Punct("}") /\ DOMAIN members = {}
        THEN Parsed(JDict(members), j + 1)
        ELSE IF text[j].k # "literal" \/ text[j].lit.t # "str" THEN Unparsed
        ELSE LET c == SkipWhite(text, j + 1)
             IN  IF c > Len(text) \/ text[c] # Punct(":") THEN Unparsed
                 ELSE LET member == ParseValue(text, c + 1)
                          k == SkipWhite(text, member.next)
                      IN  IF ~member.ok \/ k > Len(text) THEN Unparsed
                          ELSE IF text[k] = Punct(",")
                          THEN ParseMembers(text, k + 1,
                                            Put(members, text[j].lit.x, member.v))
                          ELSE IF text[k] = Punct("}")
                          THEN Parsed(JDict(Put(members, text[j].lit.x, member.v)), k + 1)
                          ELSE Unparsed

\* json.load(f): the value the whole text spells; JSONDecodeError otherwise.
json_load(text) ==
    LET r == ParseValue(text, 1)
    IN  IF r.ok /\ SkipWhite(text, r.next) > Len(text)
        THEN [exc |-> "", value |-> r.v]
        ELSE [exc |-> "JSONDecodeError", value |-> JNone]

\* A save that leaves an existing file alone.
write_session_once(session_id, data) ==
    IF session_id \in DOMAIN session_files THEN session_files
    ELSE Put(session_files, session_id, json_dump(data))

\* save_session, lines 83-86: open(filepath, "w") and json.dump.
write_session(session_id, data) == Put(session_files, session_id, json_dump(data))

\* load_session: None when the file does not exist, else json.load.
load_session(session_id) ==
    IF session_id \notin DOMAIN session_files THEN [exc |-> "", value |-> JNone]
    ELSE json_load(session_files[session_id])

NoLoad == [op |-> "none", id |-> NoId, exc |-> "", value |-> JNone]

-----------------------------------------------------------------------------
(* prompts.py: what building a request needs of its arguments *)

\* get_review_user_prompt reads request, documents[0..2], data and rubric
\* of the scenario: a KeyError or IndexError when one is missing.
ReviewPromptBuilds(scenario) ==
    /\ scenario.kind = "dict"
    /\ {"request", "documents", "data", "rubric"} \subseteq scenario.keys
    /\ Len(scenario.docs) >= 3

\* get_improvement_user_prompt reads overall.score, .summary,
\* .top_improvement and the score of six sections of the feedback.
ImprovementPromptBuilds(current_feedback) ==
    /\ current_feedback.kind = "dict"
    /\ current_feedback.overall = "dict"
    /\ SectionKeys \subseteq current_feedback.keys

\* get_length_guidance, nested in get_scenario_user_prompt: the lengths asked
\* for when the trainee has `seconds` to read.
get_length_guidance(seconds) ==
    IF seconds <= 90 THEN
        [request |-> "1 short paragraph (2-3 sentences)",
         document |-> "2-3 sentences with 1-2 key facts each",
         data_rows |-> "3-5 rows",
         key_concepts |-> "1-2",
         data_points |-> "2-3"]
    ELSE IF seconds <= 180 THEN
        [request |-> "1 paragraph (4-5 sentences)",
         document |-> "1 paragraph (4-6 sentences) with 2-3 key facts each",
         data_rows |-> "5-7 rows",
         key_concepts |-> "2-3",
         data_points |-> "3-4"]
    ELSE IF seconds <= 300 THEN
        [request |-> "1-2 paragraphs",
         document |-> "1-2 paragraphs with 3-4 key facts each",
         data_rows |-> "7-10 rows",
         key_concepts |-> "3-4",
         data_points |-> "3-4"]
    ELSE
        [request |-> "2-3 paragraphs",
         document |-> "2 full paragraphs with 4-5 key facts each",
         data_rows |-> "10-14 rows",
         key_concepts |-> "3-5",
         data_points |-> "3-5"]

\* The scenario prompt with every length taken from the document timer.
get_scenario_user_prompt_by_document(domain, difficulty, timer_request, timer_document, timer_data) ==
    LET doc_guide == get_length_guidance(timer_document)
    IN  [request |-> doc_guide.request,
         document |-> doc_guide.document,
         data_rows |-> doc_guide.data_rows,
         key_concepts |-> doc_guide.key_concepts,
         data_points |-> doc_guide.data_points,
         domain |-> IF domain = None THEN "appropriate" ELSE NumOf(domain),
         difficulty |-> difficulty]

\* get_scenario_user_prompt: the lines of <content_length_requirements> and
\* the domain and difficulty the prompt asks for.
get_scenario_user_prompt(domain, difficulty, timer_request, timer_document, timer_data) ==
    LET request_guide == get_length_guidance(timer_request)
        doc_guide == get_length_guidance(timer_document)
        data_guide == get_length_guidance(timer_data)
    IN  [request |-> request_guide.request,
         document |-> doc_guide.document,
         data_rows |-> data_guide.data_rows,
         key_concepts |-> doc_guide.key_concepts,
         data_points |-> data_guide.data_points,
         domain |-> IF domain = None THEN "appropriate" ELSE NumOf(domain),
         difficulty |-> difficulty]

\* No prompt has been built yet.
NoPrompt ==
    [op |-> "none", timer_request |-> 0, timer_document |-> 0,
     timer_data |-> 0, lengths |-> EmptyMap]

\* What a request says, as far as the properties look into it: which
\* prompt it is, the JSON value it spells out and the texts the prompt fills
\* in: for the review the text under each tag of <trainee_responses>, for the
\* scenario the lengths, domain and difficulty it asks for.
Prompt(kind, about, responses) ==
    [kind |-> kind, about |-> about, responses |-> responses]

\* Lines 300-324: the tags of <trainee_responses>, each with the text shown
\* when user_responses has no such step.
ReviewPromptTags ==
    [deliverable_summary |-> "(no response)",
     doc1_notes          |-> "(no notes)",
     doc2_notes          |-> "(no notes)",
     doc3_notes          |-> "(no notes)",
     data_predictions    |-> "(no predictions)",
     data_notes          |-> "(no notes)"]

\* get_review_user_prompt: the scenario and user_responses.get(step,
\* placeholder) for each tag.
get_review_user_prompt(scenario, user_responses) ==
    Prompt("review", scenario,
           [step \in DOMAIN ReviewPromptTags |->
              IF step \in DOMAIN user_responses THEN user_responses[step]
              ELSE ReviewPromptTags[step]])

-----------------------------------------------------------------------------
(* claude_client.py: the protocol operations *)

generate_scenario(tracker, reply) ==
    call_claude(Prompt("scenario", JsonNull,
                       get_scenario_user_prompt(
                           app_config.domain, app_config.difficulty,
                           NumOf(app_config.timer_request),
                           NumOf(app_config.timer_document),
                           NumOf(app_config.timer_data))),
                tracker, "scenario_generation", reply)

generate_review(scenario, user_responses, tracker, reply) ==
    IF ~ReviewPromptBuilds(scenario) THEN Outcome("KeyError", JsonNull, tracker, <<>>)
    ELSE call_claude(get_review_user_prompt(scenario, user_responses), tracker,
                     "review", reply)

generate_improvement_comparison(past_summaries, current_feedback, tracker, reply) ==
    IF ~ImprovementPromptBuilds(current_feedback)
    THEN Outcome("KeyError", JsonNull, tracker, <<>>)
    ELSE call_claude(Prompt("improvement", current_feedback, EmptyMap), tracker,
                     "improvement_comparison", reply)

\* A checklist review that counts its usage on a tracker of its own.
review_checklist_apart(document, tracker, reply) ==
    call_claude(Prompt("checklist", JsonNull, EmptyMap), TokenTracker,
                "checklist_review", reply)

review_checklist(document, tracker, reply) ==
    call_claude(Prompt("checklist", JsonNull, EmptyMap), tracker,
                "checklist_review", reply)

-----------------------------------------------------------------------------
(* main.py: the request handlers *)

\* A list of steps with an eighth entry.
valid_steps_more ==
    <<"background_notes", "deliverable_summary",
      "doc1_notes", "doc2_notes", "doc3_notes",
      "data_predictions", "data_notes", "not_a_step">>

valid_steps ==
    <<"background_notes", "deliverable_summary",
      "doc1_notes", "doc2_notes", "doc3_notes",
      "data_predictions", "data_notes">>

ValidSteps == {valid_steps[i] : i \in 1..Len(valid_steps)}

\* What a request is answered with: op and sid name the handler and the id
\* in the path (for a start, the id returned), req lists the other
\* arguments of the request, err names the failure ("" for none), gw lists
\* the gateway invocations the handler made, in order.
Response(op, sid, req, status, err, gw, body) ==
    [op |-> op, sid |-> sid, req |-> req, status |-> status, err |-> err,
     gw |-> gw, body |-> body]

Body(doc, feedback, improvement, timer) ==
    [doc |-> doc, feedback |-> feedback, improvement |-> improvement, timer |-> timer]

NoBody == Body("", JsonNull, JsonNull, 0)

Plain(op, sid, req, status, err, gw) == Response(op, sid, req, status, err, gw, NoBody)

\* "error" in x raises TypeError when x is a number or None.
IsContainer(x) == x.kind = "dict"

\* A test that finds no error marker.
HasErrorNever(x) == FALSE

\* Line 187 (and 552, 597): the test for the record _call_claude returns
\* when the text did not parse.
HasError(x) == "error" \in x.keys

\* issued[id], counted up to 2.
Issue(id) == [issued EXCEPT ![id] = IF @ < 2 THEN @ + 1 ELSE @]

\* POST /api/session/start
start_session(reply) ==
    \E session_id \in {generate_session_id},
       r \in {generate_scenario(TokenTracker, reply)} :
    LET scenario == r.value
        session == [session_id     |-> session_id,
                    timestamp      |-> today,
                    model_used     |-> ConfigModel.api_name,
                    domain         |-> IF app_config.domain = None THEN "random"
                                       ELSE NumOf(app_config.domain),
                    difficulty     |-> app_config.difficulty,
                    scenario       |-> scenario,
                    user_responses |-> EmptyMap,
                    time_used      |-> EmptyMap,
                    tracker        |-> r.tracker]
    IN  /\ IF r.exc # ""
           THEN /\ resp' = Plain("start", NoId, <<>>, 500, r.exc, r.log)
                /\ UNCHANGED <<active_sessions, issued>>
           ELSE IF ~IsContainer(scenario)
           THEN /\ resp' = Plain("start", NoId, <<>>, 500, "TypeError", r.log)
                /\ UNCHANGED <<active_sessions, issued>>
           ELSE IF HasError(scenario)
           THEN /\ resp' = Plain("start", NoId, <<>>, 500, "ParseFailure", r.log)
                /\ UNCHANGED <<active_sessions, issued>>
           ELSE /\ active_sessions' = Put(active_sessions, session_id, session)
                /\ IF {"background", "request"} \subseteq scenario.keys
                   THEN /\ resp' = Plain("start", session_id, <<>>, 200, "", r.log)
                        /\ issued' = Issue(session_id)
                   ELSE /\ resp' = Plain("start", NoId, <<>>, 500, "KeyError", r.log)
                        /\ UNCHANGED issued
        /\ UNCHANGED <<app_config, today, sessions_dir,
                       active_quick_sessions, quick_sessions_dir>>

\* GET /api/session/{session_id}/doc/{doc_num}
get_document(session_id, doc_num) ==
    /\ resp' =
         IF session_id \notin DOMAIN active_sessions
         THEN Plain("get_document", session_id, <<doc_num>>, 404, "NotFound", <<>>)
         ELSE IF doc_num < 1 \/ doc_num > 3
         THEN Plain("get_document", session_id, <<doc_num>>, 400, "Validation", <<>>)
         ELSE LET scenario == active_sessions[session_id].scenario
              IN  IF "documents" \notin scenario.keys
                  THEN Plain("get_document", session_id, <<doc_num>>, 500, "KeyError", <<>>)
                  ELSE IF doc_num > Len(scenario.docs)
                  THEN Plain("get_document", session_id, <<doc_num>>, 500, "IndexError", <<>>)
                  ELSE Response("get_document", session_id, <<doc_num>>, 200, "", <<>>,
                                Body(scenario.docs[doc_num], JsonNull, JsonNull, 0))
    /\ UNCHANGED <<app_config, today, active_sessions, sessions_dir, issued,
                   active_quick_sessions, quick_sessions_dir>>

\* A read of the data that does not look the session up first.
get_data_unchecked(session_id) ==
    /\ resp' =
         IF session_id \in DOMAIN active_sessions
            /\ "data" \in active_sessions[session_id].scenario.keys
         THEN Plain("get_data", session_id, <<>>, 200, "", <<>>)
         ELSE Plain("get_data", session_id, <<>>, 500, "KeyError", <<>>)
    /\ UNCHANGED <<app_config, today, active_sessions, sessions_dir, issued,
                   active_quick_sessions, quick_sessions_dir>>

\* GET /api/session/{session_id}/data
get_data(session_id) ==
    /\ resp' =
         IF session_id \notin DOMAIN active_sessions
         THEN Plain("get_data", session_id, <<>>, 404, "NotFound", <<>>)
         ELSE IF "data" \notin active_sessions[session_id].scenario.keys
         THEN Plain("get_data", session_id, <<>>, 500, "KeyError", <<>>)
         ELSE Plain("get_data", session_id, <<>>, 200, "", <<>>)
    /\ UNCHANGED <<app_config, today, active_sessions, sessions_dir, issued,
                   active_quick_sessions, quick_sessions_dir>>

\* GET /api/cost/{session_id}
get_cost(session_id) ==
    /\ resp' =
         IF session_id \notin DOMAIN active_sessions
         THEN Plain("get_cost", session_id, <<>>, 404, "NotFound", <<>>)
         ELSE IF ~ModelKnown
         THEN Plain("get_cost", session_id, <<>>, 500, "KeyError", <<>>)
         ELSE Plain("get_cost", session_id, <<>>, 200, "", <<>>)
    /\ UNCHANGED <<app_config, today, active_sessions, sessions_dir, issued,
                   active_quick_sessions, quick_sessions_dir>>

\* A submit that keeps what a step already holds.
record_step_keep(session, step, content, time_used) ==
    IF step \in DOMAIN session.user_responses THEN session
    ELSE [session EXCEPT !.user_responses = Put(@, step, content),
                         !.time_used = Put(@, step, time_used)]

\* A submit that records the content and not the time.
record_step_content(session, step, content, time_used) ==
    [session EXCEPT !.user_responses = Put(@, step, content)]

\* Lines 333-334: the two assignments of submit_notes.
record_step(session, step, content, time_used) ==
    [session EXCEPT !.user_responses = Put(@, step, content),
                    !.time_used = Put(@, step, time_used)]

\* POST /api/session/{session_id}/submit
submit_notes(session_id, step, content, time_used) ==
    LET req == <<step, content, time_used>>
    IN  /\ IF session_id \notin DOMAIN active_sessions
           THEN /\ resp' = Plain("submit", session_id, req, 404, "NotFound", <<>>)
                /\ UNCHANGED active_sessions
           ELSE IF step \notin ValidSteps
           THEN /\ resp' = Plain("submit", session_id, req, 400, "Validation", <<>>)
                /\ UNCHANGED active_sessions
           ELSE /\ active_sessions' =
                     [active_sessions EXCEPT
                        ![session_id] = record_step(@, step, content, time_used)]
                /\ resp' = Plain("submit", session_id, req, 200, "", <<>>)
        /\ UNCHANGED <<app_config, today, sessions_dir, issued,
                       active_quick_sessions, quick_sessions_dir>>

\* POST /api/session/{session_id}/review-checklist.  The rows of the
\* checklist reach the prompt only and are left out.
review_checklist_endpoint(session_id, doc_num, reply) ==
    LET op == "review_checklist"
        req == <<doc_num>>
    IN  /\ IF session_id \notin DOMAIN active_sessions
           THEN /\ resp' = Plain(op, session_id, req, 404, "NotFound", <<>>)
                /\ UNCHANGED active_sessions
           ELSE IF doc_num < 1 \/ doc_num > 3
           THEN /\ resp' = Plain(op, session_id, req, 400, "Validation", <<>>)
                /\ UNCHANGED active_sessions
           ELSE LET session == active_sessions[session_id]
                    scenario == session.scenario
                IN  IF "documents" \notin scenario.keys
                    THEN /\ resp' = Plain(op, session_id, req, 500, "KeyError", <<>>)
                         /\ UNCHANGED active_sessions
                    ELSE IF doc_num > Len(scenario.docs)
                    THEN /\ resp' = Plain(op, session_id, req, 500, "IndexError", <<>>)
                         /\ UNCHANGED active_sessions
                    ELSE IF "rubric" \notin scenario.keys
                    THEN /\ resp' = Plain(op, session_id, req, 500, "KeyError", <<>>)
                         /\ UNCHANGED active_sessions
                    ELSE \E r \in {review_checklist(scenario.docs[doc_num],
                                                      session.tracker, reply)} :
                             /\ r.tracker.call_count <= MaxCalls
                             /\ active_sessions' =
                                  [active_sessions EXCEPT ![session_id].tracker = r.tracker]
                             /\ resp' =
                                  IF r.exc # ""
                                  THEN Plain(op, session_id, req, 500, r.exc, r.log)
                                  ELSE Response(op, session_id, req, 200, "", r.log,
                                                Body("", r.value, JsonNull, 0))
        /\ UNCHANGED <<app_config, today, sessions_dir, issued,
                       active_quick_sessions, quick_sessions_dir>>

\* Lines 384-396: the record review_session saves.
session_data(session, feedback, improvement, tracker) ==
    [session_id     |-> session.session_id,
     timestamp      |-> session.timestamp,
     model_used     |-> session.model_used,
     domain         |-> session.domain,
     difficulty     |-> session.difficulty,
     scenario       |-> session.scenario,
     user_responses |-> session.user_responses,
     time_used      |-> session.time_used,
     feedback       |-> feedback,
     improvement    |-> improvement,
     token_usage    |-> to_dict(tracker, ConfigModel)]

\* load_session on the directory as the handlers see it: None when there
\* is no file, else the document in it.
StoredRecord(session_id) ==
    IF session_id \in DOMAIN sessions_dir THEN <<sessions_dir[session_id]>> ELSE None

\* The document with one more member.
WithStatus(data, status) ==
    [k \in DOMAIN data \cup {"status"} |-> IF k = "status" THEN status ELSE data[k]]

\* A lookup that reads the store only.
get_session_stored(session_id) ==
    /\ \E data \in {StoredRecord(session_id)} :
          resp' = IF data = None
                  THEN Plain("get_session", session_id, <<>>, 404, "NotFound", <<>>)
                  ELSE Response("get_session", session_id, <<>>, 200, "", <<>>,
                                WithStatus(data[1], "complete"))
    /\ UNCHANGED <<app_config, today, active_sessions, sessions_dir, issued,
                   active_quick_sessions, quick_sessions_dir>>

\* GET /api/session/{session_id}: the in-memory table first, then the store.
get_session(session_id) ==
    /\ IF session_id \in DOMAIN active_sessions
       THEN LET session == active_sessions[session_id]
            IN  resp' = Response("get_session", session_id, <<>>, 200, "", <<>>,
                                 [session_id     |-> session.session_id,
                                  timestamp      |-> session.timestamp,
                                  scenario       |-> session.scenario,
                                  user_responses |-> session.user_responses,
                                  time_used      |-> session.time_used,
                                  status         |-> "in_progress"])
       ELSE \E data \in {StoredRecord(session_id)} :
              resp' = IF data = None
                      THEN Plain("get_session", session_id, <<>>, 404, "NotFound", <<>>)
                      ELSE Response("get_session", session_id, <<>>, 200, "", <<>>,
                                    WithStatus(data[1], "complete"))
    /\ UNCHANGED <<app_config, today, active_sessions, sessions_dir, issued,
                   active_quick_sessions, quick_sessions_dir>>

\* GET /api/sessions
get_sessions ==
    /\ \E listed \in {list_sessions} :
          resp' = IF listed.raised
                  THEN Plain("get_sessions", NoId, <<>>, 500, "AttributeError", <<>>)
                  ELSE Response("get_sessions", NoId, <<>>, 200, "", <<>>,
                                [sessions |-> listed.sessions])
    /\ UNCHANGED <<app_config, today, active_sessions, sessions_dir, issued,
                   active_quick_sessions, quick_sessions_dir>>

\* An except clause for ValueError alone.
caught_value_errors(exc) == exc = "BudgetExceeded"

\* Lines 373-381: "except Exception" around the improvement comparison
\* catches whatever the comparison raises.
caught(exc) == TRUE

\* A gate that looks at the feedback alone.
compares_without_past(past_summaries, feedback) == ~HasError(feedback)

\* Line 372: whether the review goes on to the improvement comparison.
compares_with_past(past_summaries, feedback) ==
    past_summaries # <<>> /\ ~HasError(feedback)

\* A failed review that takes the session out of the table.
table_without_session(session_id, tracker) == Remove(active_sessions, session_id)

\* The table after a review that raised: line 402 was not reached, the
\* session is still there, its tracker with the usage of the calls made.
table_after_failure(session_id, tracker) ==
    [active_sessions EXCEPT ![session_id].tracker = tracker]

\* Line 85 of session_store.py: open(filepath, "w") raises OSError when the
\* sessions directory cannot be written to (disk "full"); nothing is written.
write_raises(disk) == disk # "ok"

\* POST /api/session/{session_id}/review
review_session(session_id, reply, reply2, disk) ==
    IF session_id \notin DOMAIN active_sessions
    THEN /\ resp' = Plain("review", session_id, <<>>, 404, "NotFound", <<>>)
         /\ UNCHANGED <<app_config, today, active_sessions, sessions_dir, issued,
                        active_quick_sessions, quick_sessions_dir>>
    ELSE \E session \in {active_sessions[session_id]} :
         \E r \in {generate_review(session.scenario, session.user_responses,
                                    session.tracker, reply)},
            past \in {get_past_summaries(PastLimit)} :
         \E c \in {generate_improvement_comparison(past.summaries, r.value,
                                                    r.tracker, reply2)} :
         LET feedback == r.value
             compares == compares_with_past(past.summaries, feedback)
             improvement == IF compares /\ c.exc = "" THEN c.value ELSE JsonNull
             tracker == IF compares THEN c.tracker ELSE r.tracker
             gw == IF compares THEN r.log \o c.log ELSE r.log
             failedAt(err, t, log) ==
                 /\ resp' = Plain("review", session_id, <<>>, 500, err, log)
                 /\ active_sessions' = table_after_failure(session_id, t)
                 /\ UNCHANGED sessions_dir
             failed(err) == failedAt(err, r.tracker, r.log)
         IN  /\ r.tracker.call_count <= MaxCalls
             /\ IF r.exc # "" THEN failed(r.exc)
                ELSE IF past.raised THEN failed("AttributeError")
                ELSE IF past.summaries # <<>> /\ ~IsContainer(feedback)
                THEN failed("TypeError")
                ELSE IF compares /\ c.exc # "" /\ ~caught(c.exc)
                THEN failedAt(c.exc, c.tracker, gw)
                ELSE IF write_raises(disk) THEN failedAt("OSError", tracker, gw)
                ELSE /\ sessions_dir' =
                          save_session(session_id,
                                       session_data(session, feedback, improvement, tracker))
                     /\ active_sessions' = Remove(active_sessions, session_id)
                     /\ resp' = Response("review", session_id, <<>>, 200, "", gw,
                                         Body("", feedback, improvement, 0))
             /\ UNCHANGED <<app_config, today, issued,
                            active_quick_sessions, quick_sessions_dir>>

\* A PUT: the fields the body does not name go back to their defaults.
update_config_put(updates) ==
    /\ app_config' =
         [key \in DOMAIN app_config |->
            IF key \in DOMAIN updates THEN updates[key] ELSE AppConfig[key]]
    /\ resp' = IF app_config'.model_key \in DOMAIN MODELS
               THEN Plain("update_config", NoId, updates, 200, "", <<>>)
               ELSE Plain("update_config", NoId, updates, 500, "KeyError", <<>>)
    /\ UNCHANGED <<today, active_sessions, sessions_dir, issued,
                   active_quick_sessions, quick_sessions_dir>>

\* PATCH /api/config: setattr for every field sent, then get_config(),
\* which reads app_config.model.
update_config(updates) ==
    /\ app_config' =
         [key \in DOMAIN app_config |->
            IF key \in DOMAIN updates THEN updates[key] ELSE app_config[key]]
    /\ resp' = IF app_config'.model_key \in DOMAIN MODELS
               THEN Plain("update_config", NoId, updates, 200, "", <<>>)
               ELSE Plain("update_config", NoId, updates, 500, "KeyError", <<>>)
    /\ UNCHANGED <<today, active_sessions, sessions_dir, issued,
                   active_quick_sessions, quick_sessions_dir>>

\* Midnight passes: datetime.now() reports the next day.
NewDay ==
    /\ today < MaxDay
    /\ today' = today + 1
    /\ UNCHANGED <<app_config, active_sessions, sessions_dir, resp, issued,
                   active_quick_sessions, quick_sessions_dir>>

-----------------------------------------------------------------------------
(* main.py, claude_client.py, session_store.py: quick practice *)

DURATION_SECONDS == [m2 |-> 150, m5 |-> 300, m10 |-> 600]

\* A table of modes with a fourth entry.
ModeKeyLoose == [x \in {"2.5min", "5min", "10min", "1min"} |->
                   IF x = "2.5min" THEN "m2" ELSE IF x = "10min" THEN "m10" ELSE "m5"]

\* The mode strings, by the field of DURATION_SECONDS that stands for each.
ModeKey == [x \in {"2.5min", "5min", "10min"} |->
              IF x = "2.5min" THEN "m2" ELSE IF x = "5min" THEN "m5" ELSE "m10"]

\* The stem f"quick_{today}_{next_counter:03d}" of a quick session file.
QuickId(day, n) == [prefix |-> "quick", day |-> day, suffix |-> Pad3(n)]

NextQuickCounter ==
    LET existing == {f \in DOMAIN quick_sessions_dir : f.day = today}
    IN  IF existing # {}
        THEN Max({ParseInt(name.suffix) : name \in existing}) + 1
        ELSE 1

generate_quick_session_id == QuickId(today, NextQuickCounter)

\* A save that leaves the quick store as it is.
save_quick_nothing(session_id, data) == quick_sessions_dir

\* save_quick_session: sessions/quick/<session_id>.json is (over)written.
save_quick_session(session_id, data) == Put(quick_sessions_dir, session_id, data)

generate_quick_scenario(duration_mode, tracker, reply) ==
    call_claude(Prompt("quick_scenario", JsonNull, EmptyMap), tracker,
                "quick_scenario", reply)

\* scenario[...] of the four arguments is evaluated before the call.
grade_quick_response(scenario, user_response, tracker, reply) ==
    IF ~({"question", "documents", "key_facts", "ideal_response"} \subseteq scenario.keys)
    THEN Outcome("KeyError", JsonNull, tracker, <<>>)
    ELSE call_claude(Prompt("quick_grade", scenario, EmptyMap), tracker,
                     "quick_grade", reply)

\* POST /api/quick/start
start_quick_session(duration_mode, reply) ==
    \E session_id \in {generate_quick_session_id},
       r \in {generate_quick_scenario(duration_mode, TokenTracker, reply)} :
    LET op == "quick_start"
        req == <<duration_mode>>
        scenario == r.value
        session == [session_id    |-> session_id,
                    timestamp     |-> today,
                    duration_mode |-> duration_mode,
                    scenario      |-> scenario,
                    tracker       |-> r.tracker]
    IN  /\ IF duration_mode \notin DOMAIN ModeKey
           THEN /\ resp' = Plain(op, NoId, req, 400, "Validation", <<>>)
                /\ UNCHANGED active_quick_sessions
           ELSE IF r.exc # ""
           THEN /\ resp' = Plain(op, NoId, req, 500, r.exc, r.log)
                /\ UNCHANGED active_quick_sessions
           ELSE IF ~IsContainer(scenario)
           THEN /\ resp' = Plain(op, NoId, req, 500, "TypeError", r.log)
                /\ UNCHANGED active_quick_sessions
           ELSE IF HasError(scenario)
           THEN /\ resp' = Plain(op, NoId, req, 500, "ParseFailure", r.log)
                /\ UNCHANGED active_quick_sessions
           ELSE /\ active_quick_sessions' =
                     Put(active_quick_sessions, session_id, session)
                /\ resp' =
                     IF {"question", "documents"} \subseteq scenario.keys
                     THEN Response(op, session_id, req, 200, "", r.log,
                                   Body("", JsonNull, JsonNull,
                                        DURATION_SECONDS[ModeKey[duration_mode]]))
                     ELSE Plain(op, NoId, req, 500, "KeyError", r.log)
        /\ UNCHANGED <<app_config, today, active_sessions, sessions_dir, issued,
                       quick_sessions_dir>>

\* Lines 601-614: the record submit_quick_session saves; question, documents,
\* key_facts and ideal_response are kept together as the scenario they are
\* read from.
quick_session_data(session, user_response, time_used, device, feedback, tracker) ==
    [session_id    |-> session.session_id,
     timestamp     |-> session.timestamp,
     duration_mode |-> session.duration_mode,
     scenario      |-> session.scenario,
     user_response |-> user_response,
     time_used     |-> time_used,
     device        |-> device,
     feedback      |-> feedback,
     token_usage   |-> to_dict(tracker, ConfigModel)]

\* POST /api/quick/{session_id}/submit
submit_quick_session(session_id, response, time_used, device, reply) ==
    LET op == "quick_submit"
        req == <<response, time_used, device>>
    IN  /\ IF session_id \notin DOMAIN active_quick_sessions
           THEN /\ resp' = Plain(op, session_id, req, 404, "NotFound", <<>>)
                /\ UNCHANGED <<active_quick_sessions, quick_sessions_dir>>
           ELSE \E session \in {active_quick_sessions[session_id]} :
                \E r \in {grade_quick_response(session.scenario, response,
                                                session.tracker, reply)} :
                LET feedback == r.value
                    failed(err) ==
                        /\ resp' = Plain(op, session_id, req, 500, err, r.log)
                        /\ active_quick_sessions' =
                             [active_quick_sessions EXCEPT
                                ![session_id].tracker = r.tracker]
                        /\ UNCHANGED quick_sessions_dir
                IN  /\ r.tracker.call_count <= MaxCalls
                    /\ IF r.exc # "" THEN failed(r.exc)
                       ELSE IF ~IsContainer(feedback) THEN failed("TypeError")
                       ELSE IF HasError(feedback) THEN failed("ParseFailure")
                       ELSE /\ quick_sessions_dir' =
                                 save_quick_session(session_id,
                                     quick_session_data(session, response, time_used,
                                                        device, feedback, r.tracker))
                            /\ active_quick_sessions' =
                                 Remove(active_quick_sessions, session_id)
                            /\ resp' = Response(op, session_id, req, 200, "", r.log,
                                                Body("", feedback, JsonNull, 0))
        /\ UNCHANGED <<app_config, today, active_sessions, sessions_dir, issued>>

-----------------------------------------------------------------------------
(* The requests and replies the model draws from.  A run stays within one  *)
(* scope: "client" varies the submitted notes against a well-behaved       *)
(* oracle, "oracle" varies the oracle's replies, "store" varies the        *)
(* records reviews leave behind, "budget" varies the configuration,        *)
(* "reads" varies the read requests and the ids, "disk" lets the writes   *)
(* of the store fail, "days" lets midnight pass, "quick" runs the quick    *)
(* practice flow.                                                          *)

AllIds == {SessionId(d, n) : d \in 1..MaxDay, n \in 1..MaxSessions}

StepArgs == {valid_steps[i] : i \in 1..MaxStepArg} \cup {"not_a_step"}

\* content and time_used of a submit
Notes == {<<"a", 10>>, <<"b", 20>>}

\* Bodies of PATCH /api/config on the fields the budget reads; the ceiling
\* of 2.00 dollars is one the second call of a session passes.
ConfigUpdates ==
    {[model_key |-> "sonnet"], [model_key |-> "gpt"],
     [cost_limit |-> Num(DefaultCostLimit)], [cost_limit |-> Num(0)],
     [cost_limit |-> Num(20000)], [cost_limit |-> None]}

\* Bodies of PATCH /api/config on the fields the budget does not read: one
\* field, two fields, and the empty body.
SettingsUpdates ==
    {EmptyMap,
     [timer_request |-> Num(300)],
     [domain |-> Num("thermal")],
     [difficulty |-> "advanced"],
     [model_key |-> "haiku", timer_document |-> Num(600)]}

NoInput ==
    [sessions |-> 0,
     starts |-> {}, reviews |-> {}, compares |-> {}, checklists |-> {},
     steps |-> {}, notes |-> {}, docs |-> {}, ids |-> {}, patches |-> {},
     reads |-> FALSE, costs |-> FALSE, days |-> FALSE, lists |-> FALSE,
     modes |-> {}, qstarts |-> {}, grades |-> {}, qids |-> {},
     disks |-> {"ok"}]

Scopes ==
    [client |->
        [NoInput EXCEPT
           !.sessions = MaxSessions - 1,
           !.starts = {Says("scn")}, !.reviews = {Says("fb"), Fails},
           !.compares = {Says("fb")},
           !.steps = StepArgs, !.notes = Notes],
     oracle |->
        [NoInput EXCEPT
           !.sessions = MaxSessions - 1,
           !.starts = {Says("scn"), Fenced("scn"), Inline("scn"), Says("fb"),
                       Says("num"), Says(WORD), Fenced(WORD), Inline(WORD),
                       Fails, Empty},
           !.reviews = {Says("fb"), Fenced("fb"), Inline("fb"),
                        Says("scn"), Says("num"), Says(WORD), Fails, Empty},
           !.compares = {Says("fb")}],
     store |->
        [NoInput EXCEPT
           !.sessions = MaxSessions,
           !.starts = {Says("scn")},
           !.reviews = {Says("fb"), Says("fbstr"), Says("fbns"), Says("num"),
                        Says(WORD), Inline("fb")},
           !.compares = {Says("fb"), Says(WORD), Inline("fb"), Fails},
           !.lists = TRUE],
     budget |->
        [NoInput EXCEPT
           !.sessions = MaxSessions - 1,
           !.starts = {Says("scn")}, !.reviews = {Says("fb")},
           !.compares = {Says("fb")}, !.checklists = {Says("fb")},
           !.docs = {1}, !.patches = ConfigUpdates, !.costs = TRUE],
     reads |->
        [NoInput EXCEPT
           !.sessions = MaxSessions - 1,
           !.starts = {Says("scn"), Says("scn2"), Says("fb")},
           !.reviews = {Says("fb")}, !.compares = {Says("fb")},
           !.checklists = {Says("fb"), Says(WORD), Inline("fb"), Fails},
           !.steps = {valid_steps[1], "not_a_step"}, !.notes = {<<"a", 10>>},
           !.docs = {0, 1, 3, 4},
           !.ids = {SessionId(1, n) : n \in 1..MaxSessions},
           !.reads = TRUE, !.costs = TRUE],
     settings |->
        [NoInput EXCEPT
           !.sessions = MaxSessions,
           !.starts = {Says("scn")}, !.reviews = {Says("fb")},
           !.compares = {Says("fb")},
           !.patches = SettingsUpdates],
     mixed |->
        [NoInput EXCEPT
           !.sessions = MaxSessions - 1,
           !.starts = {Says("scn")}, !.reviews = {Says("fb")},
           !.compares = {Says("fb")},
           !.modes = {"2.5min", "5min", "10min", "1min", ""},
           !.qstarts = {Says("qscn")},
           !.grades = {Says("qfb")}],
     disk |->
        [NoInput EXCEPT
           !.sessions = MaxSessions,
           !.starts = {Says("scn"), Says("scn2")},
           !.reviews = {Says("fb"), Says(WORD), [Says("fb") EXCEPT !.usage = <<7, 3>>]},
           !.compares = {Says("fb")},
           !.disks = {"ok", "full"}],
     days |->
        [NoInput EXCEPT
           !.sessions = MaxSessions,
           !.starts = {Says("scn")}, !.reviews = {Says("fb")},
           !.compares = {Says("fb")},
           !.steps = {valid_steps[1]}, !.notes = {<<"a", 10>>}, !.days = TRUE],
     quick |->
        [NoInput EXCEPT
           !.sessions = MaxSessions,
           !.modes = {"5min", "1min"},
           !.qstarts = {Says("qscn"), Says("qfb"), Says(WORD), Fails},
           !.grades = {Says("qfb"), Says(WORD), Fails},
           !.qids = {QuickId(1, 1)},
           !.patches = {[cost_limit |-> Num(DefaultCostLimit)],
                        [cost_limit |-> Num(0)]}]]

In == Scopes[scope]

\* The ids requests name: the sessions in progress, and in scope "reads" any id.
ReqIds == DOMAIN active_sessions \cup In.ids

QuickReqIds == DOMAIN active_quick_sessions \cup In.qids

\* A start is taken while the run holds no more sessions than the scope allows.
RoomFor(session_id, held) == Cardinality(held \cup {session_id}) <= In.sessions

-----------------------------------------------------------------------------
(* The specification *)

Init ==
    /\ app_config = AppConfig
    /\ today = 1
    /\ active_sessions = EmptyMap
    /\ sessions_dir = EmptyMap
    /\ active_quick_sessions = EmptyMap
    /\ quick_sessions_dir = EmptyMap
    /\ resp = Plain("none", NoId, <<>>, 0, "", <<>>)
    /\ issued = [id \in AllIds |-> 0]
    /\ scope \in DOMAIN Scopes
    /\ session_files = EmptyMap
    /\ saved = EmptyMap
    /\ loaded = NoLoad
    /\ tracked = TokenTracker
    /\ prompted = NoPrompt

StartSession ==
    /\ RoomFor(generate_session_id, DOMAIN active_sessions \cup DOMAIN sessions_dir)
    /\ \E reply \in In.starts : start_session(reply)
    /\ UNCHANGED <<scope, units>>

GetDocument ==
    /\ In.reads
    /\ \E id \in ReqIds, n \in In.docs : get_document(id, n)
    /\ UNCHANGED <<scope, units>>

GetData ==
    /\ In.reads
    /\ \E id \in ReqIds : get_data(id)
    /\ UNCHANGED <<scope, units>>

GetCost ==
    /\ In.costs
    /\ \E id \in ReqIds : get_cost(id)
    /\ UNCHANGED <<scope, units>>

SubmitNotes ==
    /\ \E id \in ReqIds, step \in In.steps, note \in In.notes :
          submit_notes(id, step, note[1], note[2])
    /\ UNCHANGED <<scope, units>>

ReviewChecklist ==
    /\ \E id \in ReqIds, n \in In.docs, reply \in In.checklists :
          review_checklist_endpoint(id, n, reply)
    /\ UNCHANGED <<scope, units>>

ReviewSession ==
    /\ \E id \in ReqIds, reply \in In.reviews, reply2 \in In.compares,
          disk \in In.disks :
          review_session(id, reply, reply2, disk)
    /\ UNCHANGED <<scope, units>>

GetSession ==
    /\ In.reads
    /\ \E id \in ReqIds \cup DOMAIN sessions_dir : get_session(id)
    /\ UNCHANGED <<scope, units>>

GetSessions ==
    /\ In.lists
    /\ get_sessions
    /\ UNCHANGED <<scope, units>>

UpdateConfig ==
    /\ \E updates \in In.patches : update_config(updates)
    /\ UNCHANGED <<scope, units>>

Midnight ==
    /\ In.days
    /\ NewDay
    /\ UNCHANGED <<scope, units>>

QuickStart ==
    /\ RoomFor(generate_quick_session_id,
               DOMAIN active_quick_sessions \cup DOMAIN quick_sessions_dir)
    /\ \E mode \in In.modes, reply \in In.qstarts : start_quick_session(mode, reply)
    /\ UNCHANGED <<scope, units>>

QuickSubmit ==
    /\ \E id \in QuickReqIds, reply \in In.grades :
          submit_quick_session(id, "r", 10, "mobile", reply)
    /\ UNCHANGED <<scope, units>>

Next ==
    \/ StartSession
    \/ GetDocument
    \/ GetData
    \/ GetCost
    \/ SubmitNotes
    \/ ReviewChecklist
    \/ ReviewSession
    \/ GetSession
    \/ GetSessions
    \/ UpdateConfig
    \/ Midnight
    \/ QuickStart
    \/ QuickSubmit

Spec == Init /\ [][Next]_vars

-----------------------------------------------------------------------------
(* The store and the tracker called directly *)

\* The ids save_session and load_session are called with.
StoreIds == {SessionId(1, 1), SessionId(1, 2)}

\* The documents handed to save_session: dicts of every nesting the
\* records have (a dict in a dict, a list of dicts, empty containers).
Documents ==
    LET atoms == {JNone, JBool(TRUE), JInt(1), JStr("a")}
        lists == {JList(<<>>), JList(<<JInt(1)>>), JList(<<JStr("a"), JNone>>),
                  JList(<<JDict([k |-> JInt(1)])>>)}
        inner == {JDict(EmptyMap), JDict([k |-> JStr("a")]),
                  JDict([k |-> JInt(1), m |-> JList(<<JBool(TRUE)>>)])}
    IN  {JDict(EmptyMap)}
        \cup {JDict([k |-> x]) : x \in atoms \cup lists \cup inner}
        \cup {JDict([k |-> x, m |-> JList(<<x, x>>)]) : x \in atoms}

\* The timers a scenario prompt is built for: both sides of every limit of
\* get_length_guidance, the shortest timer and the default one.
TimerArgs == {0, 90, 91, 180, 181, 300, 301, 420}

\* input_tokens and output_tokens of a tracked call: at the opus prices one
\* input token alone rounds to nothing and four do not.
TrackArgs == {<<0, 0>>, <<1, 0>>, <<3, 0>>, <<0, 1>>, <<1, 1>>, <<3, 1>>}

UnitInit ==
    /\ app_config = AppConfig
    /\ today = 1
    /\ active_sessions = EmptyMap
    /\ sessions_dir = EmptyMap
    /\ active_quick_sessions = EmptyMap
    /\ quick_sessions_dir = EmptyMap
    /\ resp = Plain("none", NoId, <<>>, 0, "", <<>>)
    /\ issued = [id \in AllIds |-> 0]
    /\ scope \in {"roundtrip", "tracking", "prompting"}
    /\ session_files = EmptyMap
    /\ saved = EmptyMap
    /\ loaded = NoLoad
    /\ tracked = TokenTracker
    /\ prompted = NoPrompt

program == <<app_config, today, active_sessions, sessions_dir,
             active_quick_sessions, quick_sessions_dir, resp, issued, scope>>

SaveSession ==
    /\ scope = "roundtrip"
    /\ \E id \in StoreIds, data \in Documents :
          /\ session_files' = write_session(id, data)
          /\ saved' = Put(saved, id, data)
          /\ loaded' = [op |-> "save", id |-> id, exc |-> "", value |-> data]
    /\ UNCHANGED <<program, tracked, prompted>>

LoadSession ==
    /\ scope = "roundtrip"
    /\ \E id \in StoreIds : \E r \in {load_session(id)} :
          loaded' = [op |-> "load", id |-> id, exc |-> r.exc, value |-> r.value]
    /\ UNCHANGED <<program, session_files, saved, tracked, prompted>>

Track ==
    /\ scope = "tracking"
    /\ tracked.call_count < MaxCalls
    /\ \E usage \in TrackArgs :
          tracked' = track(tracked, usage[1], usage[2], "call")
    /\ UNCHANGED <<program, session_files, saved, loaded, prompted>>

\* get_scenario_user_prompt with the three timers it reads.
ScenarioPrompt ==
    /\ scope = "prompting"
    /\ \E timer_request \in TimerArgs, timer_document \in TimerArgs,
          timer_data \in TimerArgs :
          prompted' = [op |-> "scenario",
                       timer_request |-> timer_request,
                       timer_document |-> timer_document,
                       timer_data |-> timer_data,
                       lengths |-> get_scenario_user_prompt(
                                       None, "intermediate", timer_request,
                                       timer_document, timer_data)]
    /\ UNCHANGED <<program, session_files, saved, loaded, tracked>>

UnitNext ==
    \/ SaveSession
    \/ LoadSession
    \/ Track
    \/ ScenarioPrompt

UnitSpec == UnitInit /\ [][UnitNext]_vars

-----------------------------------------------------------------------------
(* Properties *)

\* The step is the handling of a request by the handler op: every handler
\* answers with its own op, and only midnight leaves the last response alone.
Handled(op) == today' = today /\ resp'.op = op

\* The record the gateway returns for a text it could not parse.
IsSentinel(v) == v.kind = "dict" /\ "error" \in v.keys

\* The store refused the write of the step's review.
WriteFailed == resp'.err = "OSError"

\* The session id keeps its scenario, responses and elapsed times.
Intact(id) ==
    /\ id \in DOMAIN active_sessions'
    /\ active_sessions'[id].scenario = active_sessions[id].scenario
    /\ active_sessions'[id].user_responses = active_sessions[id].user_responses
    /\ active_sessions'[id].time_used = active_sessions[id].time_used

\* The seven recognized step identifiers.
RecognizedSteps ==
    {"background_notes", "deliverable_summary", "doc1_notes", "doc2_notes",
     "doc3_notes", "data_predictions", "data_notes"}

\* C1: budget gate.  Whenever the gateway is invoked, under whatever label,
\* with a tracker whose estimated cost under the configured model is at or
\* above the configured cost limit, the invocation fails with the
\* budget-exceeded error, no request is placed with the oracle and the
\* tracker is what it was; when it is the first invocation of a handler the
\* request fails with that error and the session's tracker is unchanged.
C1_BudgetGate ==
    \A k \in 1..Len(resp.gw) :
        LET e == resp.gw[k]
        IN  (/\ ModelKnown
             /\ IsNumber(app_config.cost_limit)
             /\ estimate_cost(e.before, ConfigModel) >= NumOf(app_config.cost_limit))
            => /\ e.exc = "BudgetExceeded"
               /\ e.sent = 0
               /\ e.after = e.before
               /\ k = 1 => resp.status = 500 /\ resp.err = "BudgetExceeded"
               /\ (k = 1 /\ resp.op \in {"review", "review_checklist"})
                     => active_sessions[resp.sid].tracker = e.before
               /\ (k = 1 /\ resp.op = "quick_submit")
                     => active_quick_sessions[resp.sid].tracker = e.before

\* C1 witness: a review whose own call was admitted and whose improvement
\* comparison the gateway refused for the budget.
C1_Witness ==
    /\ resp.op = "review"
    /\ Len(resp.gw) = 2
    /\ resp.gw[2].label = "improvement_comparison"
    /\ resp.gw[2].exc = "BudgetExceeded"
    /\ resp.gw[2].sent = 0

\* The review call of the step raised (also while building its request) or
\* returned the parse-failure sentinel.
ReviewCallFailed ==
    \/ resp'.gw = <<>>
    \/ resp'.gw[1].exc # ""
    \/ IsSentinel(resp'.gw[1].value)

\* C2 as stated: if the review call raises or returns a parse-failure
\* sentinel, the session is still in the in-memory table with its scenario,
\* responses and elapsed times intact and no record for its id is in the
\* store.
C2_FinalizeFailureKeepsSession ==
    [][(Handled("review") /\ resp'.sid \in DOMAIN active_sessions /\ ReviewCallFailed)
        => /\ Intact(resp'.sid)
           /\ resp'.sid \notin DOMAIN sessions_dir']_vars

\* C2 amended: if the review call raises, the review fails, the session is
\* retained intact and nothing is written.  If it returns a parse-failure
\* sentinel no comparison is requested, and the review either completes,
\* writing the record with the sentinel as feedback and no comparison and
\* removing the session from memory, or fails before the write, the session
\* retained intact.
C2_SentinelIsFinalized ==
    [][(Handled("review") /\ resp'.sid \in DOMAIN active_sessions /\ ReviewCallFailed)
        => LET id == resp'.sid
               gw == resp'.gw
               retained == /\ resp'.status = 500
                           /\ Intact(id)
                           /\ sessions_dir' = sessions_dir
               finalized == /\ resp'.status = 200
                            /\ id \notin DOMAIN active_sessions'
                            /\ id \in DOMAIN sessions_dir'
                            /\ sessions_dir' = Put(sessions_dir, id, sessions_dir'[id])
                            /\ sessions_dir'[id].feedback = gw[1].value
                            /\ sessions_dir'[id].improvement = JsonNull
                            /\ resp'.body.feedback = gw[1].value
                            /\ resp'.body.improvement = JsonNull
           IN  IF gw = <<>> \/ gw[1].exc # ""
               THEN retained
               ELSE Len(gw) = 1 /\ (finalized \/ retained)]_vars

\* C2 witness: a review answered 200 whose feedback, in the response and in
\* the record written, is the parse-failure sentinel.
C2_Witness ==
    /\ resp.op = "review"
    /\ resp.status = 200
    /\ IsSentinel(resp.body.feedback)
    /\ resp.sid \notin DOMAIN active_sessions
    /\ resp.sid \in DOMAIN sessions_dir
    /\ sessions_dir[resp.sid].feedback = resp.body.feedback

\* C3: a review whose oracle result parses (to a JSON object) leaves, in a
\* store that takes the write, a record under the session id holding the
\* session's scenario, responses and elapsed times, the feedback as the
\* oracle returned it, the comparison and the tracker snapshot, and the id
\* is no longer in the in-memory table.
C3_FinalizeSuccess ==
    [][(/\ Handled("review")
        /\ resp'.sid \in DOMAIN active_sessions
        /\ resp'.gw # <<>>
        /\ resp'.gw[1].exc = ""
        /\ resp'.gw[1].value.kind = "dict"
        /\ ~IsSentinel(resp'.gw[1].value)
        /\ ~WriteFailed)
        => LET id == resp'.sid
               old == active_sessions[id]
           IN  /\ resp'.status = 200
               /\ id \notin DOMAIN active_sessions'
               /\ id \in DOMAIN sessions_dir'
               /\ sessions_dir'[id].scenario = old.scenario
               /\ sessions_dir'[id].user_responses = old.user_responses
               /\ sessions_dir'[id].time_used = old.time_used
               /\ sessions_dir'[id].feedback = resp'.gw[1].value
               /\ sessions_dir'[id].improvement = resp'.body.improvement
               /\ sessions_dir'[id].token_usage.calls = resp'.gw[Len(resp'.gw)].after.calls]_vars

\* C4: no two successful starts return the same session id.
C4_SessionIdsUnique == \A id \in AllIds : issued[id] <= 1

\* C5: if the scenario-generation call raises or returns a parse-failure
\* sentinel, start reports an error, the in-memory table is exactly what it
\* was and nothing is written to the store.
C5_StartFailureRetainsNothing ==
    [][(/\ Handled("start")
        /\ resp'.gw # <<>>
        /\ (resp'.gw[1].exc # "" \/ IsSentinel(resp'.gw[1].value)))
        => /\ resp'.status = 500
           /\ active_sessions' = active_sessions
           /\ sessions_dir' = sessions_dir]_vars

\* C5 witness: a start answered with an error after the oracle's text did
\* not parse, while another session is in progress.
C5_Witness ==
    /\ resp.op = "start"
    /\ resp.status = 500
    /\ resp.gw # <<>>
    /\ IsSentinel(resp.gw[1].value)
    /\ active_sessions # EmptyMap

\* C6: a submit for an existing session with a step outside the seven
\* recognized identifiers fails with 400 and leaves the session's response
\* map and elapsed-time map (and all else) unchanged.
C6_UnrecognizedStepRejected ==
    [][(/\ Handled("submit")
        /\ resp'.sid \in DOMAIN active_sessions
        /\ resp'.req[1] \notin RecognizedSteps)
        => /\ resp'.status = 400
           /\ active_sessions' = active_sessions
           /\ sessions_dir' = sessions_dir]_vars

\* C6 witness: a submit with an unrecognized step answered 400 for a session
\* that holds a response.
C6_Witness ==
    /\ resp.op = "submit"
    /\ resp.status = 400
    /\ resp.req[1] \notin RecognizedSteps
    /\ resp.sid \in DOMAIN active_sessions
    /\ active_sessions[resp.sid].user_responses # EmptyMap

C8_UnknownIdNotFound ==
    [][(/\ today' = today
        /\ resp'.op \in {"get_document", "get_data", "review_checklist",
                         "submit", "review", "get_cost"}
        /\ resp'.sid \notin DOMAIN active_sessions)
        => /\ resp'.status = 404
           /\ resp'.gw = <<>>
           /\ UNCHANGED <<app_config, active_sessions, sessions_dir, issued,
                          active_quick_sessions, quick_sessions_dir>>]_vars

\* C8 witness: a checklist review for an unknown id and a document index
\* outside 1..3 answered 404 while a session is in progress.
C8_Witness ==
    /\ resp.op = "review_checklist"
    /\ resp.status = 404
    /\ resp.req[1] \notin 1..3
    /\ resp.sid \notin DOMAIN active_sessions
    /\ active_sessions # EmptyMap

\* C9: for an existing session get-document and review-checklist with an
\* index outside 1..3 answer 400 without an oracle call, and get-document
\* with an index in 1..3 answers with that document of the stored scenario,
\* for every scenario a start answered 200 for.
C9_DocumentIndexValidated ==
    [][(/\ today' = today
        /\ resp'.op \in {"get_document", "review_checklist"}
        /\ resp'.sid \in DOMAIN active_sessions)
        => LET scenario == active_sessions[resp'.sid].scenario
               n == resp'.req[1]
           IN  /\ n \notin 1..3 => resp'.status = 400 /\ resp'.gw = <<>>
               /\ (/\ resp'.op = "get_document"
                   /\ n \in 1..3
                   /\ {"background", "request"} \subseteq scenario.keys)
                  => /\ resp'.status = 200
                     /\ resp'.body.doc = scenario.docs[n]]_vars

\* C10: when the oracle call succeeds and its text holds no JSON document
\* at all, the gateway does not raise: it returns the record with the error
\* marker, the raw text as received and the parse error, the usage of the
\* call already added to the tracker.
C10_ParseFailureSentinel ==
    \A k \in 1..Len(resp.gw) :
        LET e == resp.gw[k]
        IN  (/\ e.sent = 1
             /\ e.reply.kind = "text"
             /\ \A i \in 1..Len(e.reply.text) : e.reply.text[i] \notin JsonTokens)
            => /\ e.exc = ""
               /\ e.value = Json("dict", {"error", "raw_response", "parse_error"},
                                 <<>>, "absent", e.reply.text)
               /\ e.after = track(e.before, e.reply.usage[1], e.reply.usage[2], e.label)

\* C11: transport failure propagates.  When the call placed with the oracle
\* itself fails, the gateway raises, and what it raises is neither the
\* budget-exceeded error nor a returned value such as the parse-failure
\* sentinel; the tracker's totals, call count and call list are what they
\* were before the invocation.  When it is the first invocation of a
\* handler the request fails with that error and the session's tracker is
\* unchanged.
C11_TransportFailurePropagates ==
    \A k \in 1..Len(resp.gw) :
        LET e == resp.gw[k]
        IN  (e.sent = 1 /\ e.reply.kind = "error")
            => /\ e.exc \notin {"", "BudgetExceeded"}
               /\ e.value = JsonNull
               /\ ~IsSentinel(e.value)
               /\ e.after.total_input_tokens = e.before.total_input_tokens
               /\ e.after.total_output_tokens = e.before.total_output_tokens
               /\ e.after.call_count = e.before.call_count
               /\ e.after.calls = e.before.calls
               /\ k = 1 => resp.status = 500 /\ resp.err = e.exc
               /\ (k = 1 /\ resp.op \in {"review", "review_checklist"})
                     => active_sessions[resp.sid].tracker = e.before
               /\ (k = 1 /\ resp.op = "quick_submit")
                     => active_quick_sessions[resp.sid].tracker = e.before

\* C11 witness: the review call of a session that has one call on its
\* tracker was placed and failed in transport.
C11_Witness ==
    /\ resp.op = "review"
    /\ resp.status = 500
    /\ Len(resp.gw) = 1
    /\ resp.gw[1].sent = 1
    /\ resp.gw[1].reply.kind = "error"
    /\ resp.gw[1].before.call_count = 1
    /\ resp.sid \in DOMAIN active_sessions

\* The improvement comparison of the step was entered and failed: its
\* request could not be built from the feedback, or its call was refused
\* for the budget, failed in transport or raised on the reply.
ComparisonFailed ==
    \/ Len(resp'.gw) = 1
    \/ Len(resp'.gw) = 2 /\ resp'.gw[2].exc # ""

\* C12: improvement comparison never fails the review.  When the review
\* call returned a parsed feedback without error marker, past summaries
\* exist and the comparison fails (budget, transport, or an error while
\* building its request from the feedback), the review answers 200 with
\* the feedback and a null comparison, the record is written with that
\* feedback and a null comparison, and the session leaves the in-memory
\* table, unless the store refuses the write.
C12_ComparisonNeverFailsReview ==
    [][(/\ Handled("review")
        /\ resp'.sid \in DOMAIN active_sessions
        /\ resp'.gw # <<>>
        /\ resp'.gw[1].exc = ""
        /\ resp'.gw[1].value.kind = "dict"
        /\ ~IsSentinel(resp'.gw[1].value)
        /\ ~get_past_summaries(PastLimit).raised
        /\ get_past_summaries(PastLimit).summaries # <<>>
        /\ ComparisonFailed
        /\ ~WriteFailed)
        => LET id == resp'.sid
               feedback == resp'.gw[1].value
           IN  /\ resp'.status = 200
               /\ resp'.body.feedback = feedback
               /\ resp'.body.improvement = JsonNull
               /\ id \in DOMAIN sessions_dir'
               /\ sessions_dir'[id].feedback = feedback
               /\ sessions_dir'[id].improvement = JsonNull
               /\ sessions_dir'[id].scenario = active_sessions[id].scenario
               /\ id \notin DOMAIN active_sessions']_vars

\* C12 witness: a review finalized although the call of its improvement
\* comparison failed in transport.
C12_Witness ==
    /\ resp.op = "review"
    /\ resp.status = 200
    /\ Len(resp.gw) = 2
    /\ resp.gw[2].label = "improvement_comparison"
    /\ resp.gw[2].exc = "APIError"
    /\ resp.body.improvement = JsonNull
    /\ resp.sid \in DOMAIN sessions_dir
    /\ sessions_dir[resp.sid].improvement = JsonNull
    /\ resp.sid \notin DOMAIN active_sessions

\* The record is one the listing can summarize: an object whose feedback is
\* an object (token_usage is an object in every record review writes).
WellFormedRecord(data) == data.feedback.kind = "dict"

\* C13: listing isolates corruption.  For every content of the sessions
\* directory the listing answers without raising, with exactly one summary
\* per file that holds a well-formed record and none for the others.
C13_ListingIsolatesCorruption ==
    [][Handled("get_sessions")
        => /\ resp'.status = 200
           /\ LET listed == resp'.body.sessions
                   good == {f \in DOMAIN sessions_dir : WellFormedRecord(sessions_dir[f])}
               IN  /\ {listed[i].session_id : i \in 1..Len(listed)} = good
                   /\ Len(listed) = Cardinality(good)]_vars

\* C14: store round-trip.  For every id and every document, a load after a
\* save returns a document equal to the one last saved under that id (a
\* second save replaces the first), and a load of an id never saved
\* returns None; no load raises.
C14_StoreRoundTrip ==
    /\ \A id \in StoreIds :
          LET r == load_session(id)
          IN  /\ r.exc = ""
              /\ r.value = IF id \in DOMAIN saved THEN saved[id] ELSE JNone
    /\ loaded.op = "load"
          => /\ loaded.exc = ""
             /\ loaded.value = IF loaded.id \in DOMAIN saved
                                THEN saved[loaded.id] ELSE JNone

\* C14 witness: a nested document was loaded back from an id while the
\* other id, never saved, has no file.
C14_Witness ==
    /\ loaded.op = "load"
    /\ loaded.id \in DOMAIN saved
    /\ loaded.value = JDict([k |-> JInt(1), m |-> JList(<<JInt(1), JInt(1)>>)])
    /\ DOMAIN session_files # StoreIds

\* C15: persisted records are write-once.  No step of any operation changes
\* or removes the record an id has in the store: every write is to an id
\* that has no record yet.
C15_RecordsWriteOnce ==
    [][\A id \in DOMAIN sessions_dir :
          /\ id \in DOMAIN sessions_dir'
          /\ sessions_dir'[id] = sessions_dir[id]]_vars

\* C15 witness: a review has written a record while the store held another
\* one, which is still there.
C15_Witness ==
    /\ resp.op = "review"
    /\ resp.status = 200
    /\ resp.sid \in DOMAIN sessions_dir
    /\ Cardinality(DOMAIN sessions_dir) >= 2

\* C16: scenario immutability.  For every id a start has returned, no step
\* of any operation changes the scenario held for it while it is in the
\* in-memory table, and the record written at its finalization holds that
\* scenario.
C16_ScenarioImmutable ==
    [][\A id \in DOMAIN active_sessions :
          issued[id] >= 1
          => /\ id \in DOMAIN active_sessions'
                  => active_sessions'[id].scenario = active_sessions[id].scenario
             /\ (id \notin DOMAIN sessions_dir /\ id \in DOMAIN sessions_dir')
                  => sessions_dir'[id].scenario = active_sessions[id].scenario]_vars

\* C17: review sees every response.  The request built for the review call
\* holds, for each of the seven recognized steps present in the session's
\* response map, the content recorded for that step.
C17_ReviewSeesEveryResponse ==
    [][(/\ Handled("review")
        /\ resp'.sid \in DOMAIN active_sessions
        /\ resp'.gw # <<>>)
        => LET user_responses == active_sessions[resp'.sid].user_responses
               shown == resp'.gw[1].prompt.responses
           IN  \A step \in RecognizedSteps \cap DOMAIN user_responses :
                  /\ step \in DOMAIN shown
                  /\ shown[step] = user_responses[step]]_vars

\* The sum of a field over the calls of a tracker.
RECURSIVE SumOf(_, _)
SumOf(calls, field) ==
    IF calls = <<>> THEN 0 ELSE Head(calls)[field] + SumOf(Tail(calls), field)

\* c, a count of 1e-4 dollars, is the amount n, a count of 1e-8 dollars,
\* rounded to 4 decimal places: no multiple of 1e-4 dollars is nearer to n.
RoundsTo(n, c) ==
    LET d == IF n >= 10000 * c THEN n - 10000 * c ELSE 10000 * c - n
    IN  2 * d <= 10000

\* C18: cost additivity.  After any sequence of track calls the totals are
\* the sums of the counts of the calls, and under every price the
\* estimated cost is total_in / 1e6 * price_in + total_out / 1e6 *
\* price_out rounded to 4 decimal places, the same as for one call that
\* carries the totals.
C18_CostAdditivity ==
    /\ tracked.total_input_tokens = SumOf(tracked.calls, "input_tokens")
    /\ tracked.total_output_tokens = SumOf(tracked.calls, "output_tokens")
    /\ tracked.call_count = Len(tracked.calls)
    /\ \A key \in DOMAIN MODELS :
          LET model == MODELS[key]
              exact == SumOf(tracked.calls, "input_tokens") * model.input_cost_per_m
                       + SumOf(tracked.calls, "output_tokens") * model.output_cost_per_m
              once == track(TokenTracker, tracked.total_input_tokens,
                            tracked.total_output_tokens, "call")
          IN  /\ RoundsTo(exact, estimate_cost(tracked, model))
              /\ estimate_cost(tracked, model) = estimate_cost(once, model)

\* C18 witness: three calls of one input token each, one of them with an
\* output token; the input tokens of a single call cost less than half of
\* 1e-4 dollars.
C18_Witness ==
    /\ tracked.call_count = 3
    /\ tracked.total_input_tokens = 3
    /\ tracked.total_output_tokens = 1
    /\ estimate_cost(tracked, MODELS.opus) = 1

\* C19: config partial update.  PATCH /config sets every configuration
\* field present in the body to the value given and leaves alone every
\* field absent from it, every in-memory session and the store.
C19_ConfigPartialUpdate ==
    [][Handled("update_config")
        => LET updates == resp'.req
           IN  /\ DOMAIN app_config' = DOMAIN app_config
               /\ \A key \in DOMAIN app_config :
                     app_config'[key] = IF key \in DOMAIN updates
                                        THEN updates[key] ELSE app_config[key]
               /\ active_sessions' = active_sessions
               /\ sessions_dir' = sessions_dir
               /\ active_quick_sessions' = active_quick_sessions
               /\ quick_sessions_dir' = quick_sessions_dir]_vars

\* C19 witness: with a session in memory and a record in the store, an
\* update of the domain alone has left the difficulty and the timer an
\* earlier update had set.
C19_Witness ==
    /\ resp.op = "update_config"
    /\ resp.status = 200
    /\ DOMAIN resp.req = {"domain"}
    /\ app_config.domain = Num("thermal")
    /\ app_config.difficulty = "advanced"
    /\ app_config.timer_request = Num(300)
    /\ active_sessions # EmptyMap
    /\ sessions_dir # EmptyMap

\* The tracker as it would be had the calls labelled checklist_review never
\* been tracked.
RECURSIVE Replay(_)
Replay(calls) ==
    IF calls = <<>> THEN TokenTracker
    ELSE LET last == calls[Len(calls)]
             t == Replay(SubSeq(calls, 1, Len(calls) - 1))
         IN  IF last.label = "checklist_review" THEN t
             ELSE track(t, last.input_tokens, last.output_tokens, last.label)

WithoutChecklist(tracker) == Replay(tracker.calls)

HasChecklistCall(calls) ==
    \E i \in 1..Len(calls) : calls[i].label = "checklist_review"

\* A step of review-checklist on the existing session id changes nothing
\* but the tracker of that session, which is left alone when no response
\* came back and grows by the usage of the call otherwise.
ChecklistTouchesTrackerOnly(id) ==
    /\ Intact(id)
    /\ DOMAIN active_sessions' = DOMAIN active_sessions
    /\ \A other \in DOMAIN active_sessions \ {id} :
          active_sessions'[other] = active_sessions[other]
    /\ sessions_dir' = sessions_dir
    /\ LET before == active_sessions[id].tracker
           after == active_sessions'[id].tracker
       IN  IF resp'.gw = <<>> \/ resp'.gw[1].sent = 0
              \/ resp'.gw[1].reply.kind = "error"
           THEN after = before
           ELSE /\ after.calls =
                     Append(before.calls,
                            [label |-> "checklist_review",
                             input_tokens |-> resp'.gw[1].reply.usage[1],
                             output_tokens |-> resp'.gw[1].reply.usage[2]])
                /\ after.call_count = before.call_count + 1
                /\ after.total_input_tokens =
                     before.total_input_tokens + resp'.gw[1].reply.usage[1]
                /\ after.total_output_tokens =
                     before.total_output_tokens + resp'.gw[1].reply.usage[2]

\* C20 as stated, its last part: a review after checklist reviews finalizes
\* as if they had never been called, so a review call that the budget
\* would admit without the usage of the checklist calls is not refused for
\* the budget.
C20_ChecklistLeavesReviewAlone ==
    [][(/\ Handled("review")
        /\ resp'.sid \in DOMAIN active_sessions
        /\ resp'.gw # <<>>
        /\ ModelKnown
        /\ IsNumber(app_config.cost_limit)
        /\ estimate_cost(WithoutChecklist(active_sessions[resp'.sid].tracker),
                         ConfigModel) < NumOf(app_config.cost_limit))
        => resp'.gw[1].exc # "BudgetExceeded"]_vars

\* C20 amended: review-checklist changes nothing of the session but the
\* tracker, which grows by the usage of its call; a later review whose call
\* is placed gets from it what it would get without the checklist calls,
\* and when it completes the record holds the session's scenario,
\* responses and times, that feedback, and the checklist calls in its
\* token usage.
C20_ChecklistChangesUsageOnly ==
    [][/\ (Handled("review_checklist") /\ resp'.sid \in DOMAIN active_sessions)
           => ChecklistTouchesTrackerOnly(resp'.sid)
       /\ (/\ Handled("review")
           /\ resp'.sid \in DOMAIN active_sessions
           /\ resp'.gw # <<>>
           /\ resp'.gw[1].sent = 1)
           => LET id == resp'.sid
                  session == active_sessions[id]
                  apart == generate_review(session.scenario, session.user_responses,
                                           WithoutChecklist(session.tracker),
                                           resp'.gw[1].reply)
              IN  /\ apart.exc = resp'.gw[1].exc
                  /\ apart.value = resp'.gw[1].value
                  /\ resp'.status = 200
                       => /\ sessions_dir'[id].scenario = session.scenario
                          /\ sessions_dir'[id].user_responses = session.user_responses
                          /\ sessions_dir'[id].time_used = session.time_used
                          /\ sessions_dir'[id].feedback = apart.value
                          /\ HasChecklistCall(session.tracker.calls)
                               => HasChecklistCall(sessions_dir'[id].token_usage.calls)]_vars

\* C20 witness: a review has finalized a session on which a checklist
\* review had been called.
C20_Witness ==
    /\ resp.op = "review"
    /\ resp.status = 200
    /\ resp.sid \in DOMAIN sessions_dir
    /\ HasChecklistCall(sessions_dir[resp.sid].token_usage.calls)
    /\ sessions_dir[resp.sid].feedback.kind = "dict"

\* The record has a completed top-level score: its feedback is an object
\* whose overall section is an object with a score.
Graded(data) == data.feedback.kind = "dict" /\ data.feedback.overall = "dict"

\* The first n entries of the sequence.
Take(seq, n) == SubSeq(seq, 1, IF Len(seq) < n THEN Len(seq) ELSE n)

\* The entries of the sequence of file names whose record is graded.
RECURSIVE GradedOf(_)
GradedOf(names) ==
    IF names = <<>> THEN <<>>
    ELSE IF Graded(sessions_dir[Head(names)])
    THEN <<Head(names)>> \o GradedOf(Tail(names))
    ELSE GradedOf(Tail(names))

\* C21: recent graded summaries.  For every content of the store and every
\* limit, get_past_summaries returns without failing, and what it returns
\* is the first limit of the records with a completed top-level score,
\* newest id first: records without feedback, with a sentinel as feedback
\* or with an overall that lacks a score are not among them.
C21_RecentGradedSummaries ==
    \A limit \in {1, PastLimit} :
        LET r == get_past_summaries(limit)
        IN  /\ ~r.raised
            /\ r.summaries = Take(GradedOf(SortedReverse(DOMAIN sessions_dir)), limit)

\* The counters of the records the store holds for the current day.
TodaysCounters ==
    {ParseInt(f.suffix) : f \in {g \in DOMAIN sessions_dir : g.day = today}}

\* C22: id allocation is max+1.  In every state the id the allocation
\* returns is the current day followed by 001 when the store holds no
\* record of the day, and otherwise by one more than the highest counter
\* among the records of the day, written in decimal with zeros in front up
\* to three digits; it is a function of the records of the day alone.
C22_IdAllocationMaxPlusOne ==
    LET id == generate_session_id
        n == IF TodaysCounters = {} THEN 1
             ELSE (CHOOSE c \in TodaysCounters : \A d \in TodaysCounters : d <= c) + 1
    IN  /\ id.day = today
        /\ ParseInt(id.suffix) = n
        /\ \A i \in 1..Len(id.suffix) : id.suffix[i] \in 0..9
        /\ Len(id.suffix) >= 3
        /\ Len(id.suffix) > 3 => id.suffix[1] # 0

\* C22 witness: on the second day, with a record of the first day in the
\* store and one of the second, the allocation returns counter 002 of the
\* second day.
C22_Witness ==
    /\ today = 2
    /\ SessionId(1, 1) \in DOMAIN sessions_dir
    /\ SessionId(2, 1) \in DOMAIN sessions_dir
    /\ generate_session_id = [day |-> 2, suffix |-> <<0, 0, 2>>]

\* C23: session lookup checks memory then disk.  The lookup of an id in
\* the in-memory table answers with the in-progress view of that session;
\* of an id not there but in the store, with the stored record and status
\* complete; of any other id, with 404.  It changes neither the table nor
\* the store.
C23_LookupMemoryThenDisk ==
    [][Handled("get_session")
        => LET id == resp'.sid
           IN  /\ active_sessions' = active_sessions
               /\ sessions_dir' = sessions_dir
               /\ id \in DOMAIN active_sessions
                    => /\ resp'.status = 200
                       /\ resp'.body.status = "in_progress"
                       /\ resp'.body.session_id = id
                       /\ resp'.body.scenario = active_sessions[id].scenario
                       /\ resp'.body.user_responses = active_sessions[id].user_responses
                       /\ resp'.body.time_used = active_sessions[id].time_used
               /\ (id \notin DOMAIN active_sessions /\ id \in DOMAIN sessions_dir)
                    => /\ resp'.status = 200
                       /\ resp'.body.status = "complete"
                       /\ \A k \in DOMAIN sessions_dir[id] :
                             resp'.body[k] = sessions_dir[id][k]
               /\ (id \notin DOMAIN active_sessions /\ id \notin DOMAIN sessions_dir)
                    => resp'.status = 404]_vars

\* C23 witness: the lookup of a finalized session answered with its record.
C23_Witness ==
    /\ resp.op = "get_session"
    /\ resp.status = 200
    /\ resp.body.status = "complete"
    /\ resp.body.feedback = sessions_dir[resp.sid].feedback
    /\ resp.sid \notin DOMAIN active_sessions

\* C24: quick start validates the duration mode.  A quick start with a
\* mode other than 2.5min, 5min and 10min answers 400, places no oracle
\* call and allocates no session; one that succeeds with a valid mode
\* answers with the timer of 150, 300 or 600 seconds of that mode.
C24_QuickStartValidatesMode ==
    [][Handled("quick_start")
        => LET mode == resp'.req[1]
           IN  /\ mode \notin {"2.5min", "5min", "10min"}
                    => /\ resp'.status = 400
                       /\ resp'.gw = <<>>
                       /\ resp'.sid = NoId
                       /\ active_quick_sessions' = active_quick_sessions
                       /\ quick_sessions_dir' = quick_sessions_dir
               /\ (mode \in {"2.5min", "5min", "10min"} /\ resp'.status = 200)
                    => /\ resp'.body.timer = IF mode = "2.5min" THEN 150
                                             ELSE IF mode = "5min" THEN 300 ELSE 600
                       /\ active_quick_sessions'[resp'.sid].duration_mode = mode
               /\ mode \in {"2.5min", "5min", "10min"} => resp'.status # 400]_vars

\* C24 witness: with a quick session in memory, a quick start with the mode
\* 1min was answered 400.
C24_Witness ==
    /\ resp.op = "quick_start"
    /\ resp.req = <<"1min">>
    /\ resp.status = 400
    /\ resp.gw = <<>>
    /\ active_quick_sessions # EmptyMap

\* The tier of a timer value: at most 90 seconds, 91 to 180, 181 to 300, and
\* above 300.
Tier(seconds) ==
    IF seconds <= 90 THEN 1
    ELSE IF seconds <= 180 THEN 2
    ELSE IF seconds <= 300 THEN 3
    ELSE 4

\* C25: the length guidance depends on the tier of the timer alone, two
\* timers of different tiers get different guidance, and a scenario prompt
\* takes the request length from the request timer, the document length and
\* the key-concept count from the document timer, and the data row count and
\* the data-point count from the data timer.
C25_LengthTierLookup ==
    /\ \A a \in TimerArgs, b \in TimerArgs :
          (Tier(a) = Tier(b)) <=> (get_length_guidance(a) = get_length_guidance(b))
    /\ prompted.op = "scenario" =>
          /\ prompted.lengths.request =
                get_length_guidance(prompted.timer_request).request
          /\ prompted.lengths.document =
                get_length_guidance(prompted.timer_document).document
          /\ prompted.lengths.key_concepts =
                get_length_guidance(prompted.timer_document).key_concepts
          /\ prompted.lengths.data_rows =
                get_length_guidance(prompted.timer_data).data_rows
          /\ prompted.lengths.data_points =
                get_length_guidance(prompted.timer_data).data_points

\* A prompt was built for three timers of three different tiers.
C25_Witness ==
    /\ prompted.op = "scenario"
    /\ Tier(prompted.timer_request) = 1
    /\ Tier(prompted.timer_document) = 3
    /\ Tier(prompted.timer_data) = 4
    /\ prompted.lengths.request = "1 short paragraph (2-3 sentences)"
    /\ prompted.lengths.key_concepts = "3-4"
    /\ prompted.lengths.data_rows = "10-14 rows"

\* The gateway was called for the improvement comparison.
ComparisonPlaced(log) ==
    \E i \in DOMAIN log : log[i].label = "improvement_comparison"

\* C26: the improvement comparison is gated.  A review calls the gateway for
\* the comparison only when get_past_summaries returned at least one summary
\* and the feedback carries no error marker; in every other case the review
\* makes no call after the review call, and the record it writes, if it
\* writes one, and the response carry a null comparison.
C26_ComparisonGated ==
    [][(/\ Handled("review")
        /\ resp'.sid \in DOMAIN active_sessions)
        => LET id == resp'.sid
               past == get_past_summaries(PastLimit)
               gated == /\ ~past.raised
                        /\ past.summaries # <<>>
                        /\ resp'.gw # <<>>
                        /\ resp'.gw[1].exc = ""
                        /\ "error" \notin resp'.gw[1].value.keys
           IN  /\ ComparisonPlaced(resp'.gw) => gated
               /\ ~gated =>
                    /\ Len(resp'.gw) <= 1
                    /\ \A i \in DOMAIN resp'.gw : resp'.gw[i].label = "review"
                    /\ resp'.status = 200 =>
                         /\ resp'.body.improvement = JsonNull
                         /\ sessions_dir'[id].improvement = JsonNull
                    /\ resp'.status # 200 => sessions_dir' = sessions_dir]_vars

\* A review whose feedback is the error record was saved after a graded
\* record was there: one call, null comparison.
C26_Witness ==
    /\ resp.op = "review"
    /\ resp.status = 200
    /\ Len(resp.gw) = 1
    /\ IsSentinel(resp.body.feedback)
    /\ resp.sid \in DOMAIN sessions_dir
    /\ sessions_dir[resp.sid].improvement = JsonNull
    /\ \E other \in DOMAIN sessions_dir \ {resp.sid} :
          /\ sessions_dir[other].feedback.kind = "dict"
          /\ sessions_dir[other].feedback.overall = "dict"

\* The steps in which a handler called the gateway: the configuration is
\* the one the calls were made under.
Called == today' = today /\ resp'.gw # <<>>

\* C27: the budget check ignores the upcoming call.  Under a configuration
\* with a known model and a numeric ceiling, the gateway admits a call
\* exactly when the estimated cost before it is strictly below the ceiling,
\* so that the cost before every admitted call is strictly below the ceiling
\* in force, whatever the cost after it.
C27_BudgetIgnoresUpcomingCall ==
    [][Called =>
        \A k \in DOMAIN resp'.gw :
            LET e == resp'.gw[k]
            IN  /\ e.sent = 1 =>
                     /\ ModelKnown
                     /\ IsNumber(app_config.cost_limit)
                     /\ estimate_cost(e.before, ConfigModel)
                            < NumOf(app_config.cost_limit)
                /\ (/\ ModelKnown
                    /\ IsNumber(app_config.cost_limit)
                    /\ estimate_cost(e.before, ConfigModel)
                           < NumOf(app_config.cost_limit))
                   => e.sent = 1]_vars

\* An admitted call has taken a session's estimated cost strictly above the
\* ceiling it was admitted under.
C27_Witness ==
    /\ resp.op \in {"review", "review_checklist"}
    /\ resp.sid \in DOMAIN active_sessions
    /\ IsNumber(app_config.cost_limit)
    /\ \E k \in DOMAIN resp.gw :
          /\ resp.gw[k].sent = 1
          /\ estimate_cost(resp.gw[k].before, ConfigModel)
                < NumOf(app_config.cost_limit)
          /\ estimate_cost(resp.gw[k].after, ConfigModel)
                > NumOf(app_config.cost_limit)
          /\ active_sessions[resp.sid].tracker = resp.gw[k].after

\* C28: quick-session lifecycle.  A quick submit on an id that is not in the
\* quick table answers 404 and changes nothing.  On an id in the table: when
\* the grading call returned a parsed record without error marker, the
\* submit answers 200, the quick store gains or replaces the one record
\* under the session id, with that feedback, and the id leaves the table;
\* when the call raised or returned the error record, the submit answers
\* 500, the quick store is what it was and the session stays in the table.
\* The sessions of the full flow are untouched in every case.
C28_QuickLifecycle ==
    [][Handled("quick_submit") =>
        LET id == resp'.sid
            graded == /\ resp'.gw # <<>>
                      /\ resp'.gw[1].exc = ""
                      /\ resp'.gw[1].value.kind = "dict"
                      /\ ~IsSentinel(resp'.gw[1].value)
            failed == \/ resp'.gw = <<>>
                      \/ resp'.gw[1].exc # ""
                      \/ IsSentinel(resp'.gw[1].value)
        IN  /\ sessions_dir' = sessions_dir
            /\ active_sessions' = active_sessions
            /\ id \notin DOMAIN active_quick_sessions =>
                  /\ resp'.status = 404
                  /\ resp'.gw = <<>>
                  /\ active_quick_sessions' = active_quick_sessions
                  /\ quick_sessions_dir' = quick_sessions_dir
            /\ (id \in DOMAIN active_quick_sessions /\ graded) =>
                  /\ resp'.status = 200
                  /\ DOMAIN quick_sessions_dir' = DOMAIN quick_sessions_dir \cup {id}
                  /\ \A other \in DOMAIN quick_sessions_dir \ {id} :
                        quick_sessions_dir'[other] = quick_sessions_dir[other]
                  /\ quick_sessions_dir'[id].session_id = id
                  /\ quick_sessions_dir'[id].feedback = resp'.gw[1].value
                  /\ quick_sessions_dir'[id].scenario =
                        active_quick_sessions[id].scenario
                  /\ DOMAIN active_quick_sessions' =
                        DOMAIN active_quick_sessions \ {id}
            /\ (id \in DOMAIN active_quick_sessions /\ failed) =>
                  /\ resp'.status = 500
                  /\ quick_sessions_dir' = quick_sessions_dir
                  /\ DOMAIN active_quick_sessions' = DOMAIN active_quick_sessions
                  /\ active_quick_sessions'[id].scenario =
                        active_quick_sessions[id].scenario]_vars

\* A quick session was graded: its record is in the quick store and its id
\* is out of the table.
C28_Witness ==
    /\ resp.op = "quick_submit"
    /\ resp.status = 200
    /\ resp.sid \in DOMAIN quick_sessions_dir
    /\ quick_sessions_dir[resp.sid].feedback = resp.body.feedback
    /\ resp.sid \notin DOMAIN active_quick_sessions

\* C29: fence stripping never raises.  For every text the oracle answers
\* with, the gateway returns (it does not raise) the parsed record or the
\* parse-failure record; when the text is one JSON document between an
\* opening fence line and a closing fence, it returns that document.
C29_FenceStrippingNeverRaises ==
    \A k \in 1..Len(resp.gw) :
        LET e == resp.gw[k]
        IN  (e.sent = 1 /\ e.reply.kind = "text")
            => /\ e.exc = ""
               /\ \/ e.value = ParseFailure(e.reply.text)
                  \/ \E b \in JsonTokens : e.value = JsonOf[b]
               /\ \A b \in JsonTokens :
                     e.reply.text = <<FENCE, WORD, NL, b, NL, FENCE>>
                        => e.value = JsonOf[b]

\* C30: an unparsable comparison is absent.  When the comparison call of a
\* review was answered by the oracle with a text that does not parse, so
\* that the gateway returned the parse-failure record, the review answers
\* 200 and the comparison is null, not that record, in the response and in
\* the record written.
C30_UnparsableComparisonAbsent ==
    [][(/\ Handled("review")
        /\ Len(resp'.gw) = 2
        /\ resp'.gw[2].label = "improvement_comparison"
        /\ resp'.gw[2].exc = ""
        /\ IsSentinel(resp'.gw[2].value))
        => /\ resp'.status = 200
           /\ resp'.body.improvement = JsonNull
           /\ resp'.sid \in DOMAIN sessions_dir'
           /\ sessions_dir'[resp'.sid].improvement = JsonNull]_vars

Exhausted(id) ==
    /\ id \in DOMAIN active_sessions
    /\ ModelKnown
    /\ IsNumber(app_config.cost_limit)
    /\ estimate_cost(active_sessions[id].tracker, ConfigModel)
          >= NumOf(app_config.cost_limit)

\* C32: budget exhaustion is absorbing while the configuration is fixed.
\* Once a session is exhausted, every step that leaves the configuration
\* alone and is no start leaves the session in the table with the tracker
\* it had, so that it stays exhausted; a checklist review or review on it
\* does not succeed and places no call with the oracle, and when it gets as
\* far as the gateway it fails with the budget-exceeded error.
C32_BudgetExhaustionAbsorbing ==
    [][\A id \in AllIds :
          (Exhausted(id) /\ app_config' = app_config /\ ~Handled("start")) =>
              /\ id \in DOMAIN active_sessions'
              /\ active_sessions'[id].tracker = active_sessions[id].tracker
              /\ (/\ today' = today
                  /\ resp'.op \in {"review", "review_checklist"}
                  /\ resp'.sid = id) =>
                    /\ resp'.status # 200
                    /\ \A k \in DOMAIN resp'.gw : resp'.gw[k].sent = 0
                    /\ resp'.gw # <<>> =>
                          /\ resp'.status = 500
                          /\ resp'.err = "BudgetExceeded"]_vars

\* A review was refused for the budget on an exhausted session, whose
\* tracker holds the calls made until then and nothing of the refused one.
C32_Witness ==
    /\ resp.op = "review"
    /\ resp.err = "BudgetExceeded"
    /\ resp.gw[1].sent = 0
    /\ Exhausted(resp.sid)
    /\ active_sessions[resp.sid].tracker = resp.gw[1].before
    /\ active_sessions[resp.sid].tracker.call_count >= 2

\* C33: start never replaces an in-progress session.  A start leaves every
\* id that is in the in-memory table in it, with the scenario, the response
\* map, the time map and the tracker it had.
C33_StartNeverReplaces ==
    [][Handled("start") =>
        \A id \in DOMAIN active_sessions :
            /\ Intact(id)
            /\ active_sessions'[id].tracker = active_sessions[id].tracker]_vars

\* C34: start is all-or-nothing for every failure.  Whenever a start
\* answers with an error, whatever the error, every entry of the in-memory
\* table after it is an entry the table had before it.
C34_StartAllOrNothing ==
    [][(Handled("start") /\ resp'.status # 200) =>
        \A id \in DOMAIN active_sessions' :
            /\ id \in DOMAIN active_sessions
            /\ active_sessions'[id] = active_sessions[id]]_vars

\* C35: the persisted cost matches the recorded model.  In every record of
\* the store, the estimated cost of the token-usage snapshot is the cost of
\* the snapshot's token totals at the prices of the model whose name is the
\* record's model_used.
C35_PersistedCostMatchesModel ==
    \A id \in DOMAIN sessions_dir :
        LET data == sessions_dir[id]
        IN  \E key \in DOMAIN MODELS :
               /\ MODELS[key].api_name = data.model_used
               /\ data.token_usage.estimated_cost =
                     estimate_cost(data.token_usage, MODELS[key])

\* C36: the configuration stays usable.  In every reachable state the
\* configured model key is a key of the model table and the cost limit is a
\* number.
C36_ConfigStaysUsable ==
    /\ app_config.model_key \in DOMAIN MODELS
    /\ IsNumber(app_config.cost_limit)

\* C37: memory and disk are disjoint.  No session id is at the same time a
\* key of the in-memory table and the id of a record in the store.
C37_MemoryDiskDisjoint ==
    DOMAIN active_sessions \cap DOMAIN sessions_dir = {}

\* A session is in progress on a day for which the store holds the record
\* of a reviewed one.
C37_Witness ==
    \E id \in DOMAIN active_sessions, other \in DOMAIN sessions_dir :
        /\ id.day = other.day
        /\ id # other
        /\ issued[id] > 0

\* C38: the response map and the time map agree.  After every step, each
\* session of the in-memory table has the same keys in its response map and
\* in its elapsed-time map, all of them among the seven recognized steps;
\* and the session a successful start returns has both maps empty.
C38_ResponseTimeMapsAgree ==
    [][/\ \A id \in DOMAIN active_sessions' :
             /\ DOMAIN active_sessions'[id].user_responses
                   = DOMAIN active_sessions'[id].time_used
             /\ DOMAIN active_sessions'[id].user_responses \subseteq RecognizedSteps
       /\ (Handled("start") /\ resp'.status = 200) =>
             /\ resp'.sid \in DOMAIN active_sessions'
             /\ active_sessions'[resp'.sid].user_responses = EmptyMap
             /\ active_sessions'[resp'.sid].time_used = EmptyMap]_vars

\* Two steps are recorded for a session, one of them with 20 seconds used.
C38_Witness ==
    /\ resp.op = "submit"
    /\ resp.status = 200
    /\ resp.sid \in DOMAIN active_sessions
    /\ Cardinality(DOMAIN active_sessions[resp.sid].user_responses) = 2
    /\ DOMAIN active_sessions[resp.sid].time_used
          = DOMAIN active_sessions[resp.sid].user_responses
    /\ \E step \in DOMAIN active_sessions[resp.sid].time_used :
          active_sessions[resp.sid].time_used[step] = 20

\* The counters of a tracker agree with its call list.
Consistent(t) ==
    /\ t.call_count = Len(t.calls)
    /\ t.total_input_tokens = SumOf(t.calls, "input_tokens")
    /\ t.total_output_tokens = SumOf(t.calls, "output_tokens")

\* The call list `later` begins with the call list `earlier`.
Extends(later, earlier) ==
    /\ Len(later) >= Len(earlier)
    /\ SubSeq(later, 1, Len(earlier)) = earlier

\* C39: tracker consistency.  After every step the tracker of every session
\* in progress, full or quick, has a call count equal to the length of its
\* call list and totals equal to the sums over the list.  Every invocation
\* of the gateway leaves the tracker as it was or with the one call
\* appended, under its label and with the usage of the response, the next
\* invocation of the handler going on from there; no step other than a
\* start shortens or rewrites the call list of a session; and the tracker
\* of the session a successful start returns holds exactly the one call
\* labelled scenario_generation.
C39_TrackerConsistency ==
    [][/\ \A id \in DOMAIN active_sessions' :
             Consistent(active_sessions'[id].tracker)
       /\ \A id \in DOMAIN active_quick_sessions' :
             Consistent(active_quick_sessions'[id].tracker)
       /\ today' = today =>
             \A k \in DOMAIN resp'.gw :
                LET e == resp'.gw[k]
                    call == [label |-> e.label,
                             input_tokens |-> e.reply.usage[1],
                             output_tokens |-> e.reply.usage[2]]
                IN  /\ Consistent(e.before) /\ Consistent(e.after)
                    /\ \/ e.after = e.before
                       \/ /\ e.sent = 1
                          /\ e.after.calls = Append(e.before.calls, call)
                    /\ k > 1 => e.before = resp'.gw[k - 1].after
       /\ ~Handled("start") =>
             \A id \in DOMAIN active_sessions \cap DOMAIN active_sessions' :
                Extends(active_sessions'[id].tracker.calls,
                        active_sessions[id].tracker.calls)
       /\ (Handled("start") /\ resp'.status = 200) =>
             LET t == active_sessions'[resp'.sid].tracker
             IN  /\ t.call_count = 1
                 /\ Len(t.calls) = 1
                 /\ t.calls[1].label = "scenario_generation"]_vars

\* A tracker holds three calls of two different sizes, in the order they
\* were made: the scenario, a review, a comparison.
C39_Witness ==
    /\ resp.op = "review"
    /\ Len(resp.gw) = 2
    /\ resp.gw[2].after.call_count = 3
    /\ resp.gw[2].after.calls[1].label = "scenario_generation"
    /\ resp.gw[2].after.calls[2].label = "review"
    /\ resp.gw[2].after.calls[2].input_tokens = 7
    /\ resp.gw[2].after.calls[3].label = "improvement_comparison"
    /\ resp.gw[2].after.total_output_tokens = 5

====
